---- MODULE Spec2Model ----
(***************************************************************************)
(* Model of the crawl engine of mercadolibre.py: collect_results and the   *)
(* page fetcher fetch_page_with_challenge it calls, with the marketplace   *)
(* as the environment that answers every GET.                              *)
(***************************************************************************)
EXTENDS Integers, Sequences, FiniteSets, TLC

\* ------------------------------------------------------------------ bounds
MaxLimit == 2          \* largest value of the limit parameter
MaxPagesCap == 3       \* largest value of the max_pages parameter
PageBound == 6         \* pages resolved by a crawl without a page cap
MaxPageItems == 2      \* items on one listing page
NumLinks == 2          \* distinct product links the marketplace serves
NumUrls == 1           \* distinct continuation urls the marketplace serves
NonceBound == 4        \* nonces tried by the solver (2,000,000 in the code)
MaxToken == 3          \* distinct challenge tokens
MaxDifficulty == 3     \* largest difficulty of a challenge
MaxEnrichItems == 3    \* items handed to the enrichment pass
MaxWorkersArg == 2     \* largest max_workers argument
MaxFilterItems == 2    \* items handed to the filter
MaxSortItems == 3      \* items handed to the sort
MaxRunItems == 2       \* items a crawl returns to run
MaxXlsxItems == 2      \* items written to a workbook
MaxCrawlRequests == 2  \* requests of a crawl
MaxDetailPages == 2    \* product pages an enrichment pass fetches
MaxInvocations == 2    \* count requests served at the same time
MaxTicks == 3          \* readings of the clock that differ from the one before

\* ------------------------------------------------------- program constants
DEFAULT_PAGE_SIZE == 48
MAX_EMPTY_PAGES == 5
MaxAttempts_Four == 3 + 1
MaxAttempts == 3
MaxShellPages_Four == 3 + 1
MaxShellPages == 3
ParseLimit == 200

\* ------------------------------------------------------------- the values
Links == 1..NumLinks
None == [kind |-> "none", n |-> 0]
LinkUrls == {[kind |-> "link", n |-> u] : u \in 1..NumUrls}

NoCookie == [nparts |-> 0, token |-> 0, isint |-> FALSE, difficulty |-> 0]
\* values the marketplace sets for the _bmstate cookie: one part only, a
\* feasible and an infeasible difficulty
BmstateValues ==
    { [nparts |-> 1, token |-> 1, isint |-> FALSE, difficulty |-> 0],
      [nparts |-> 2, token |-> 1, isint |-> TRUE, difficulty |-> 1],
      [nparts |-> 2, token |-> 1, isint |-> TRUE, difficulty |-> 3] }
NoSolution == [token |-> 0, nonce |-> 0 - 1]

\* _build_opener: a new opener over an empty cookie jar
_build_opener == [bmstate |-> NoCookie, bmc |-> NoSolution]

SeqsUpTo(S, n) == UNION {[1..k -> S] : k \in 0..n}

NoHtml == [marker |-> FALSE, results |-> FALSE, links |-> <<>>, next |-> None]
ChallengeHtml == [marker |-> TRUE, results |-> FALSE, links |-> <<>>, next |-> None]
ShellHtml == NoHtml
\* links are opaque names, so the marketplace is taken to name them in the
\* order the crawl first meets them: with the links in seen known, each link
\* of a page is a known one or the next name not yet used
InMeetingOrder(l, seen) ==
    \A i \in 1..Len(l) :
        l[i] <= 1 + Cardinality(seen \cup {l[j] : j \in 1..(i - 1)})

ResultsHtmls(seen) ==
    { [marker |-> FALSE, results |-> TRUE, links |-> l, next |-> x] :
        l \in {m \in SeqsUpTo(Links, MaxPageItems) : InMeetingOrder(m, seen)},
        x \in LinkUrls \cup {None} }

\* what the marketplace can answer to one GET of a crawl that has seen the
\* links in seen
Responses(seen) ==
    { [kind |-> "page", html |-> h, code |-> 200, set_bmstate |-> NoCookie] :
        h \in ResultsHtmls(seen) \cup {ShellHtml} }
    \cup { [kind |-> "page", html |-> ChallengeHtml, code |-> 200, set_bmstate |-> c] :
        c \in BmstateValues \cup {NoCookie} }
    \cup { [kind |-> "HTTPError", html |-> NoHtml, code |-> c, set_bmstate |-> NoCookie] :
        c \in {404, 500} }
    \cup { [kind |-> "timeout", html |-> NoHtml, code |-> 0, set_bmstate |-> NoCookie] }

\* ------------------------------------------------------- challenge solver
\* leading zero hex digits of sha256(token ++ nonce), as a fixed table
LeadingZeros(token, nonce) ==
    LET h == (token * 5 + nonce * 3) % 7
    IN  IF h = 0 THEN 2 ELSE IF h < 3 THEN 1 ELSE 0

RECURSIVE FirstNonce(_, _, _)
FirstNonce(token, difficulty, nonce) ==
    IF nonce >= NonceBound THEN 0 - 1
    ELSE IF LeadingZeros(token, nonce) >= difficulty THEN nonce
    ELSE FirstNonce(token, difficulty, nonce + 1)

\* _solve_bm_challenge(cookie_jar, domain): [ok, jar]
_solve_bm_challenge(cookie_jar) ==
    LET bm_cookie == cookie_jar.bmstate
        nonce == FirstNonce(bm_cookie.token, bm_cookie.difficulty, 0)
    IN  IF bm_cookie = NoCookie THEN [ok |-> FALSE, jar |-> cookie_jar]
        ELSE IF bm_cookie.nparts < 2 THEN [ok |-> FALSE, jar |-> cookie_jar]
        ELSE IF ~bm_cookie.isint THEN [ok |-> FALSE, jar |-> cookie_jar]
        ELSE IF nonce < 0 THEN [ok |-> FALSE, jar |-> cookie_jar]
        ELSE [ok |-> TRUE,
              jar |-> [cookie_jar EXCEPT !.bmc = [token |-> bm_cookie.token, nonce |-> nonce]]]

\* --------------------------------------------------------- page fetcher
\* the cookie processor of the opener stores the cookies of a response
StoreCookies(jar, r) ==
    IF r.set_bmstate = NoCookie THEN jar ELSE [jar EXCEPT !.bmstate = r.set_bmstate]

Get(url) == [op |-> "GET", url |-> url]
Solve == [op |-> "solve", url |-> None]

\* "This page requires JavaScript to work" in html
HasChallengeMarker_Never(html) == FALSE
HasChallengeMarker(html) == html.marker

\* fetch_page_with_challenge(opener, jar, url, country) where r1 and r2 are
\* the marketplace's answers to the first and to the second GET.
\* kind: "html" (returned), "HTTPError", "timeout", "unsolved", "blocked"
fetch_page_with_challenge(jar, url, r1, r2) ==
    LET jar1 == StoreCookies(jar, r1)
        s == _solve_bm_challenge(jar1)
        jar2 == StoreCookies(s.jar, r2)
    IN  IF r1.kind # "page"
        THEN [kind |-> r1.kind, html |-> NoHtml, code |-> r1.code, jar |-> jar1,
              log |-> <<Get(url)>>]
        ELSE IF ~HasChallengeMarker(r1.html)
        THEN [kind |-> "html", html |-> r1.html, code |-> 200, jar |-> jar1,
              log |-> <<Get(url)>>]
        ELSE IF ~s.ok
        THEN [kind |-> "unsolved", html |-> NoHtml, code |-> 0, jar |-> jar1,
              log |-> <<Get(url), Solve>>]
        ELSE IF r2.kind # "page"
        THEN [kind |-> r2.kind, html |-> NoHtml, code |-> r2.code, jar |-> jar2,
              log |-> <<Get(url), Solve, Get(url)>>]
        ELSE IF HasChallengeMarker(r2.html)
        THEN [kind |-> "blocked", html |-> NoHtml, code |-> 0, jar |-> jar2,
              log |-> <<Get(url), Solve, Get(url)>>]
        ELSE [kind |-> "html", html |-> r2.html, code |-> 200, jar |-> jar2,
              log |-> <<Get(url), Solve, Get(url)>>]

\* the answers to the second GET of a call: any answer when the call makes a
\* second GET, else the one answer that is never read
SecondResponses(jar, r1, seen) ==
    IF r1.kind = "page" /\ HasChallengeMarker(r1.html) /\ _solve_bm_challenge(StoreCookies(jar, r1)).ok
    THEN Responses(seen)
    ELSE {r1}

\* ------------------------------------------------------------ url builder
build_search_url_with_start_First(start) == [kind |-> "start", n |-> 1]
build_search_url_with_start(start) == [kind |-> "start", n |-> start]
build_search_url_with_category(start) == [kind |-> "category", n |-> start]

looks_like_results_page(html) == html.results

extract_next_page_url_None(html) == None
extract_next_page_url(html) == html.next

\* parse_results_from_html(html, limit): the items of the page, numbered
\* from 1 in page order, at most limit of them
Min(a, b) == IF a < b THEN a ELSE b

parse_results_from_html(html, lim) ==
    [i \in 1..Min(Len(html.links), lim) |-> [link |-> html.links[i], position |-> i]]


\* ------------------------------------------------------------- the state
VARIABLES
    limit, fetch_all, max_pages, search_url,    \* parameters of collect_results
    pc,                  \* "loop", "attempt", "fallback", "done"
    status,              \* "running", "returned", "raised"
    reason,              \* the exit taken: which return, break or raise
    result,              \* the returned sequence
    jar,                 \* cookie jar of the current session
    page_count, current_start, next_url, current_url,
    empty_streak, shell_page_streak, seen_links, collected,
    html,                \* the page being handled, or the last one handled
    attempts,            \* iterations started by the fetch loop while it runs
    fallback_tried,      \* fallback fetches made for this page
    call,                \* the last call of fetch_page_with_challenge
    zero_run,            \* accepted pages in a row that added no item
    shell_run,           \* pages in a row that stayed shell pages
    empty_run,           \* accepted pages in a row without any item, when watched
    watch,               \* whether html is kept after the loop body, until line 427
    sv,                  \* one call of _solve_bm_challenge
    en,                  \* one call of enrich_items_with_condition
    fl,                  \* one call of apply_filters
    so,                  \* one call of sort_items_by_price
    xl,                  \* one call of build_xlsx_bytes
    tk,                  \* one call of build_filter_tokens
    cl,                  \* one run of main
    rq,                  \* the requests of one command
    sr,                  \* the count requests served by one process
    bj,                  \* one run of the daily job
    rd,                  \* one run of the development supervisor
    dp                   \* one call of extract_discount_percent_from_block

params == <<limit, fetch_all, max_pages, search_url>>
exits == <<status, reason, result>>
crawl == <<page_count, current_start, next_url, current_url, empty_streak,
           shell_page_streak, seen_links, collected>>
ghosts == <<zero_run, shell_run, empty_run, watch>>
collect == <<params, pc, exits, jar, crawl, html, attempts, fallback_tried, call, ghosts>>
parts == <<sv, en, fl, so, xl, tk, cl, rq, sr, bj, rd, dp>>
vars == <<collect, parts>>

\* a function that is not being called
Off == [pc |-> "off"]

\* every part but the named one is off
OffBut(part) ==
    /\ IF part = "sv" THEN TRUE ELSE sv = Off
    /\ IF part = "en" THEN TRUE ELSE en = Off
    /\ IF part = "fl" THEN TRUE ELSE fl = Off
    /\ IF part = "so" THEN TRUE ELSE so = Off
    /\ IF part = "xl" THEN TRUE ELSE xl = Off
    /\ IF part = "tk" THEN TRUE ELSE tk = Off
    /\ IF part = "cl" THEN TRUE ELSE cl = Off
    /\ IF part = "rq" THEN TRUE ELSE rq = Off
    /\ IF part = "sr" THEN TRUE ELSE sr = Off
    /\ IF part = "bj" THEN TRUE ELSE bj = Off
    /\ IF part = "rd" THEN TRUE ELSE rd = Off
    /\ IF part = "dp" THEN TRUE ELSE dp = Off

\* a step of the named part leaves the crawl and the other parts alone
Frame(part) ==
    /\ UNCHANGED collect
    /\ IF part = "sv" THEN TRUE ELSE UNCHANGED sv
    /\ IF part = "en" THEN TRUE ELSE UNCHANGED en
    /\ IF part = "fl" THEN TRUE ELSE UNCHANGED fl
    /\ IF part = "so" THEN TRUE ELSE UNCHANGED so
    /\ IF part = "xl" THEN TRUE ELSE UNCHANGED xl
    /\ IF part = "tk" THEN TRUE ELSE UNCHANGED tk
    /\ IF part = "cl" THEN TRUE ELSE UNCHANGED cl
    /\ IF part = "rq" THEN TRUE ELSE UNCHANGED rq
    /\ IF part = "sr" THEN TRUE ELSE UNCHANGED sr
    /\ IF part = "bj" THEN TRUE ELSE UNCHANGED bj
    /\ IF part = "rd" THEN TRUE ELSE UNCHANGED rd
    /\ IF part = "dp" THEN TRUE ELSE UNCHANGED dp

NoCall == [log |-> <<>>, kind |-> "none", code |-> 0, challenged |-> FALSE,
           solvable |-> FALSE, url |-> None, primary |-> FALSE]

unlimited_pages == max_pages <= 0

\* collect_results, lines 394-405; limit is at least 1 in every caller, and
\* is never read when fetch_all is set, so one value stands for all then
Init ==
    /\ fetch_all \in BOOLEAN
    /\ limit \in IF fetch_all THEN {MaxLimit} ELSE 1..MaxLimit
    /\ max_pages \in 0..MaxPagesCap
    /\ search_url \in {None, [kind |-> "link", n |-> 1]}
    /\ pc = "loop"
    /\ status = "running"
    /\ reason = "none"
    /\ result = <<>>
    /\ jar = _build_opener
    /\ page_count = 0
    /\ current_start = 1
    /\ next_url = search_url
    /\ current_url = None
    /\ empty_streak = 0
    /\ shell_page_streak = 0
    /\ seen_links = {}
    /\ collected = <<>>
    /\ html = NoHtml
    /\ attempts = 0
    /\ fallback_tried = 0
    /\ call = NoCall
    /\ zero_run = 0
    /\ shell_run = 0
    /\ empty_run = 0
    /\ watch = FALSE
    /\ OffBut("none")

\* lines 529-530: return collected if fetch_all else collected[:limit]
FinalSlice(coll) == IF fetch_all THEN coll ELSE SubSeq(coll, 1, Min(Len(coll), limit))

Return(value, why) ==
    /\ pc' = "done"
    /\ status' = "returned"
    /\ reason' = why
    /\ result' = value

Raise_Partial(why) ==
    /\ pc' = "done"
    /\ status' = "returned"
    /\ reason' = why
    /\ result' = collected
Raise(why) ==
    /\ pc' = "done"
    /\ status' = "raised"
    /\ reason' = why
    /\ result' = <<>>

Goto(label) ==
    /\ pc' = label
    /\ UNCHANGED exits

\* what one call of fetch_page_with_challenge did, with what it was given:
\* whether the first answer was a challenge and whether the jar then held a
\* solvable challenge cookie
CallRecord(f, url, r1, isPrimary) ==
    [log |-> f.log, kind |-> f.kind, code |-> f.code,
     challenged |-> (r1.kind = "page" /\ r1.html.marker),
     solvable |-> _solve_bm_challenge(StoreCookies(jar, r1)).ok,
     url |-> url, primary |-> isPrimary]

\* line 406: while unlimited_pages or page_count < max_pages
LoopCondition_OffByOne == unlimited_pages \/ page_count <= max_pages
LoopCondition == unlimited_pages \/ page_count < max_pages

\* lines 413-426: the url of the page: the continuation url when there is
\* one, else the url built from the offset
PageUrl_Offset == build_search_url_with_start(current_start)
PageUrl ==
    IF next_url # None THEN next_url ELSE build_search_url_with_start(current_start)

\* lines 406-427: the loop test and the url of the page
LoopTest ==
    /\ pc = "loop"
    /\ unlimited_pages => page_count < PageBound
    /\ IF LoopCondition
       THEN /\ page_count' = page_count + 1
            /\ current_url' = PageUrl
            /\ html' = NoHtml
            /\ attempts' = 0
            /\ fallback_tried' = 0
            /\ call' = NoCall
            /\ Goto("attempt")
       ELSE /\ Return(FinalSlice(collected), "page_cap")
            /\ UNCHANGED <<page_count, current_url, html, attempts, fallback_tried, call>>
    /\ UNCHANGED <<params, jar, current_start, next_url, empty_streak, shell_page_streak,
                   seen_links, collected, ghosts, parts>>

\* line 496: item["link"] in seen_links
IsSeen_Never(link, seen) == FALSE
IsSeen(link, seen) == link \in seen

\* lines 502 and 505: not fetch_all and len(collected) >= limit
LimitReached_OffByOne(coll) == ~fetch_all /\ Len(coll) > limit
LimitReached(coll) == ~fetch_all /\ Len(coll) >= limit

\* lines 494-503: the dedup loop over the items of a page, from item i on;
\* returned is TRUE when the loop returned at the limit
RECURSIVE DedupLoop(_, _, _, _, _)
DedupLoop(page_items, i, seen, coll, new_items) ==
    IF i > Len(page_items)
    THEN [seen_links |-> seen, collected |-> coll, new_items |-> new_items, returned |-> FALSE]
    ELSE IF IsSeen(page_items[i].link, seen)
    THEN DedupLoop(page_items, i + 1, seen, coll, new_items)
    ELSE LET item == [page_items[i] EXCEPT !.position = Len(coll) + 1]
             coll2 == Append(coll, item)
             seen2 == seen \cup {item.link}
         IN  IF LimitReached(coll2)
             THEN [seen_links |-> seen2, collected |-> coll2, new_items |-> new_items + 1,
                   returned |-> TRUE]
             ELSE DedupLoop(page_items, i + 1, seen2, coll2, new_items + 1)

\* lines 485-490, 513-518, 522-527: the step to the next page in either
\* addressing mode; a break when the page h has no next link
Advance(h) ==
    IF next_url # None
    THEN /\ next_url' = extract_next_page_url(h)
         /\ UNCHANGED current_start
         /\ IF extract_next_page_url(h) = None
            THEN Return(FinalSlice(collected'), "no_next")
            ELSE Goto("loop")
    ELSE /\ current_start' = current_start + DEFAULT_PAGE_SIZE
         /\ UNCHANGED next_url
         /\ Goto("loop")

\* lines 481-491 and 509-519: a page h that added nothing
EmptyPage(h, streak) ==
    /\ empty_streak' = streak + 1
    /\ IF streak + 1 >= MAX_EMPTY_PAGES
       THEN /\ Return(FinalSlice(collected'), "empty_streak")
            /\ UNCHANGED <<next_url, current_start>>
       ELSE Advance(h)

\* lines 467-478: a page that is still not a results page
ShellPage_Stops ==
    /\ shell_page_streak' = shell_page_streak + 1
    /\ UNCHANGED <<empty_streak, seen_links, collected, next_url>>
    /\ IF shell_page_streak + 1 >= MaxShellPages
       THEN /\ Raise("shell_pages")
            /\ UNCHANGED current_start
       ELSE /\ Return(FinalSlice(collected), "shell_stop")
            /\ UNCHANGED current_start
ShellPage ==
    /\ shell_page_streak' = shell_page_streak + 1
    /\ UNCHANGED <<empty_streak, seen_links, collected, next_url>>
    /\ IF shell_page_streak + 1 >= MaxShellPages
       THEN /\ Raise("shell_pages")
            /\ UNCHANGED current_start
       ELSE IF next_url # None
       THEN /\ Return(FinalSlice(collected), "shell_stop")
            /\ UNCHANGED current_start
       ELSE /\ current_start' = current_start + DEFAULT_PAGE_SIZE
            /\ Goto("loop")

\* lines 478-527: an accepted results page h
ResultsPage(h) ==
    LET page_items == parse_results_from_html(h, ParseLimit)
        d == DedupLoop(page_items, 1, seen_links, collected, 0)
    IN  /\ shell_page_streak' = 0
        /\ IF page_items = <<>>
           THEN /\ UNCHANGED <<seen_links, collected>>
                /\ EmptyPage(h, empty_streak)
           ELSE /\ seen_links' = d.seen_links
                /\ collected' = d.collected
                /\ IF d.returned \/ LimitReached(d.collected)
                   THEN /\ Return(d.collected, "limit")
                        /\ empty_streak' = 0
                        /\ UNCHANGED <<next_url, current_start>>
                   ELSE IF d.new_items = 0
                   THEN EmptyPage(h, 0)
                   ELSE /\ empty_streak' = 0
                        /\ Advance(h)

\* how a handled page counts for the claims about runs of pages
Classify(h) ==
    IF ~looks_like_results_page(h) THEN "shell"
    ELSE IF h.links = <<>> THEN "empty"
    ELSE IF \A i \in 1..Len(h.links) : h.links[i] \in seen_links THEN "dup"
    ELSE "new"

\* lines 467-527: the rest of the loop body for the page h that the fetches
\* of this iteration ended with; html is not read again before line 427
\* clears it, and an unwatched crawl forgets it at once
Process(h) ==
    /\ IF ~looks_like_results_page(h) THEN ShellPage ELSE ResultsPage(h)
    /\ shell_run' = IF Classify(h) = "shell" THEN shell_run + 1 ELSE 0
    /\ zero_run' = CASE Classify(h) \in {"empty", "dup"} -> zero_run + 1
                     [] Classify(h) = "shell" -> zero_run
                     [] OTHER -> 0
    /\ empty_run' = IF ~watch \/ Classify(h) = "shell" THEN empty_run
                    ELSE IF Classify(h) = "empty" THEN empty_run + 1 ELSE 0
    /\ html' = IF pc' = "loop" /\ ~watch THEN NoHtml ELSE h
    /\ UNCHANGED watch
    /\ UNCHANGED <<page_count, current_url>>

\* lines 436 and 441: exc.code == 404
IsNotFound_Never(code) == FALSE
IsNotFound(code) == code = 404

\* lines 447 and 459: the page h is not a results page, the crawl has no
\* continuation url and the category url differs from the url just fetched
NeedsFallback_AnyMode(h) == ~looks_like_results_page(h)
NeedsFallback(h) ==
    /\ ~looks_like_results_page(h)
    /\ next_url = None
    /\ build_search_url_with_category(current_start) # current_url

\* lines 429-527: one iteration of the fetch loop and what follows it: a
\* retry, the end of the crawl, the fallback fetch, or the rest of the loop
\* body; the loop counter is dead once the loop has ended with a page
Attempt ==
    /\ pc = "attempt"
    /\ \E r1 \in Responses(seen_links) : \E r2 \in SecondResponses(jar, r1, seen_links) :
         LET f == fetch_page_with_challenge(jar, current_url, r1, r2)
         IN  /\ call' = CallRecord(f, current_url, r1, TRUE)
             /\ CASE f.kind = "html" ->
                       /\ jar' = f.jar
                       /\ attempts' = 0
                       /\ IF NeedsFallback(f.html)
                          THEN /\ Goto("fallback")
                               /\ html' = f.html
                               /\ UNCHANGED <<crawl, ghosts>>
                          ELSE Process(f.html)
                  [] f.kind = "HTTPError" /\ IsNotFound(f.code) ->
                       /\ Return(FinalSlice(collected), "404")
                       /\ jar' = f.jar
                       /\ attempts' = attempts + 1
                       /\ UNCHANGED <<html, crawl, ghosts>>
                  [] f.kind = "HTTPError" /\ ~IsNotFound(f.code) ->
                       /\ jar' = _build_opener
                       /\ attempts' = attempts + 1
                       /\ UNCHANGED <<html, crawl, ghosts>>
                       /\ IF attempts + 1 >= MaxAttempts
                          THEN Raise("HTTPError")
                          ELSE Goto("attempt")
                  [] OTHER ->
                       /\ Raise(f.kind)
                       /\ jar' = f.jar
                       /\ attempts' = attempts + 1
                       /\ UNCHANGED <<html, crawl, ghosts>>
    /\ UNCHANGED <<params, fallback_tried, parts>>

\* lines 448-527: the fallback fetch at the category url and the rest of the
\* loop body
Fallback ==
    /\ pc = "fallback"
    /\ \E r1 \in Responses(seen_links) : \E r2 \in SecondResponses(jar, r1, seen_links) :
         LET fallback_url == build_search_url_with_category(current_start)
             f == fetch_page_with_challenge(jar, fallback_url, r1, r2)
         IN  /\ call' = CallRecord(f, fallback_url, r1, FALSE)
             /\ fallback_tried' = fallback_tried + 1
             /\ jar' = f.jar
             /\ CASE f.kind = "html" ->
                       Process(IF looks_like_results_page(f.html) THEN f.html ELSE html)
                  [] f.kind = "HTTPError" ->
                       Process(html)
                  [] OTHER ->
                       /\ Raise(f.kind)
                       /\ UNCHANGED <<html, crawl, ghosts>>
    /\ UNCHANGED <<params, attempts, parts>>

Next == LoopTest \/ Attempt \/ Fallback

Spec == Init /\ [][Next]_vars

\* --------------------------------------------- challenge solver, by steps
\* the _bmstate cookies a jar can hold: "token", "token;x", "token;d" and
\* "token;d;more", for d from -1 up
SolverCookies ==
    { [nparts |-> 1, token |-> t, isint |-> FALSE, difficulty |-> 0] : t \in 1..MaxToken }
    \cup { [nparts |-> n, token |-> t, isint |-> FALSE, difficulty |-> 0] :
             n \in 2..3, t \in 1..MaxToken }
    \cup { [nparts |-> n, token |-> t, isint |-> TRUE, difficulty |-> d] :
             n \in 2..3, t \in 1..MaxToken, d \in (0 - 1)..MaxDifficulty }

\* a _bmc cookie left in the jar by an earlier challenge
StaleSolution == [token |-> 0, nonce |-> 0]

SolverJars ==
    { [bmstate |-> c, bmc |-> b] :
        c \in SolverCookies \cup {NoCookie}, b \in {NoSolution, StaleSolution} }

\* line 201: digest.startswith("0" * difficulty)
StartsWithZeros_Strict(token, nonce, difficulty) == LeadingZeros(token, nonce) > difficulty
StartsWithZeros(token, nonce, difficulty) == LeadingZeros(token, nonce) >= difficulty

\* collect_results is not being called
CollectOff ==
    /\ limit = 1 /\ fetch_all = FALSE /\ max_pages = 1 /\ search_url = None
    /\ pc = "off" /\ status = "running" /\ reason = "none" /\ result = <<>>
    /\ jar = _build_opener
    /\ page_count = 0 /\ current_start = 1 /\ next_url = None /\ current_url = None
    /\ empty_streak = 0 /\ shell_page_streak = 0 /\ seen_links = {} /\ collected = <<>>
    /\ html = NoHtml /\ attempts = 0 /\ fallback_tried = 0 /\ call = NoCall
    /\ zero_run = 0 /\ shell_run = 0 /\ empty_run = 0 /\ watch = FALSE

SolverInit ==
    /\ CollectOff
    /\ sv \in { [pc |-> "begin", jar0 |-> j, cookie_jar |-> j, nonce |-> 0, ok |-> FALSE] :
                  j \in SolverJars }
    /\ OffBut("sv")

\* lines 181-197: find and parse the challenge cookie
SolveBegin ==
    /\ sv.pc = "begin"
    /\ LET bm_cookie == sv.cookie_jar.bmstate
       IN  IF bm_cookie = NoCookie \/ bm_cookie.nparts < 2 \/ ~bm_cookie.isint
           THEN sv' = [sv EXCEPT !.pc = "done", !.ok = FALSE]
           ELSE sv' = [sv EXCEPT !.pc = "search", !.nonce = 0]
    /\ Frame("sv")

\* lines 199-205: one test of the while loop, and one iteration
SolveTry ==
    /\ sv.pc = "search"
    /\ LET bm_cookie == sv.cookie_jar.bmstate
       IN  IF sv.nonce < NonceBound
           THEN IF StartsWithZeros(bm_cookie.token, sv.nonce, bm_cookie.difficulty)
                THEN sv' = [sv EXCEPT !.pc = "inject"]
                ELSE sv' = [sv EXCEPT !.nonce = sv.nonce + 1]
           ELSE sv' = [sv EXCEPT !.pc = "done", !.ok = FALSE]
    /\ Frame("sv")

\* lines 207-228: set the _bmc cookie and return True
SolveInject ==
    /\ sv.pc = "inject"
    /\ sv' = [sv EXCEPT !.pc = "done", !.ok = TRUE,
                        !.cookie_jar.bmc = [token |-> sv.cookie_jar.bmstate.token,
                                            nonce |-> sv.nonce]]
    /\ Frame("sv")

SolverNext == SolveBegin \/ SolveTry \/ SolveInject

SolverSpec == SolverInit /\ [][SolverNext]_vars

\* ------------------------------------------------- condition enrichment
\* item.get("condition") of an item without one
NoCondition == ""

\* the items handed to enrich_items_with_condition: item k has link k, and
\* a condition set by an active condition filter or none
EnrichItems(n) ==
    { s \in [1..n -> [link : 1..n, position : 1..n, condition : {NoCondition, "used"}]] :
        \A k \in 1..n : s[k].link = k /\ s[k].position = k }

\* what the fetch of a product page gives: an exception of the fetch, or a
\* page whose "itemCondition" value is value ("" when the page has none)
FetchOutcomes ==
    { [kind |-> "exception", value |-> ""] }
    \cup { [kind |-> "page", value |-> v] :
             v \in {"", "newcondition", "usedcondition", "refurbishedcondition",
                    "reconditionedcondition", "damagedcondition"} }

\* fetch_product_condition(link), lines 579-596, on the outcome o of its
\* fetch: whether it raised, and the condition it returned
fetch_product_condition_Raises(o) ==
    IF o.kind = "exception" THEN [raised |-> TRUE, condition |-> NoCondition]
    ELSE [raised |-> FALSE, condition |-> NoCondition]
fetch_product_condition(o) ==
    IF o.kind = "exception" THEN [raised |-> FALSE, condition |-> NoCondition]
    ELSE IF o.value = "" THEN [raised |-> FALSE, condition |-> NoCondition]
    ELSE IF o.value = "newcondition" THEN [raised |-> FALSE, condition |-> "new"]
    ELSE IF o.value = "usedcondition" THEN [raised |-> FALSE, condition |-> "used"]
    ELSE IF o.value \in {"refurbishedcondition", "reconditionedcondition"}
    THEN [raised |-> FALSE, condition |-> "reconditioned"]
    ELSE [raised |-> FALSE, condition |-> NoCondition]

Max(a, b) == IF a >= b THEN a ELSE b

\* line 603: workers = max(1, min(max_workers, 24))
Workers(max_workers) == Max(1, Min(max_workers, 24))

\* line 604: not item.get("condition")
IsPending_Always(item) == TRUE
IsPending(item) == item.condition = NoCondition

Pending(items) == { k \in 1..Len(items) : IsPending(items[k]) }

NoResult == [raised |-> FALSE, condition |-> NoCondition, failed |-> FALSE]

EnrichInit ==
    /\ CollectOff
    /\ \E n \in 0..MaxEnrichItems, w \in 0..MaxWorkersArg :
          \E s \in EnrichItems(n) :
             en = [pc |-> "start", items0 |-> s, items |-> s, workers |-> Workers(w),
                   queued |-> {}, running |-> {}, completed |-> {}, collected |-> {},
                   res |-> [k \in 1..n |-> NoResult],
                   fetches |-> [k \in 1..n |-> 0], writes |-> [k \in 1..n |-> 0],
                   done |-> 0]
    /\ OffBut("en")

\* lines 600-613: the early returns, and the submission of one task for
\* each pending item
EnrichBegin ==
    /\ en.pc = "start"
    /\ IF Len(en.items) = 0 \/ Pending(en.items) = {}
       THEN en' = [en EXCEPT !.pc = "done"]
       ELSE en' = [en EXCEPT !.pc = "pool", !.queued = Pending(en.items)]
    /\ Frame("en")

\* a free worker of the pool takes the oldest queued task and starts its fetch
TaskStart ==
    /\ en.pc = "pool"
    /\ en.queued # {}
    /\ Cardinality(en.running) < en.workers
    /\ LET k == CHOOSE q \in en.queued : \A r \in en.queued : q <= r
       IN  en' = [en EXCEPT !.queued = @ \ {k}, !.running = @ \cup {k},
                            !.fetches[k] = @ + 1]
    /\ Frame("en")

\* lines 608-609: a task ends with what fetch_product_condition gave
TaskFinish ==
    /\ en.pc = "pool"
    /\ \E k \in en.running, o \in FetchOutcomes :
          LET r == fetch_product_condition(o)
          IN  en' = [en EXCEPT !.running = @ \ {k}, !.completed = @ \cup {k},
                               !.res[k] = [raised |-> r.raised, condition |-> r.condition,
                                           failed |-> (o.kind = "exception" \/ o.value = "")]]
    /\ Frame("en")

\* lines 608-609 and 615: the item that the future of task k hands back with
\* the condition, which is the item the task was submitted for
TaskItem_First(k) == 1
TaskItem(k) == k

\* lines 614-619: as_completed yields a finished future; its result is
\* written to the item it names, or its exception is raised again
Collect ==
    /\ en.pc = "pool"
    /\ \E k \in en.completed :
          IF en.res[k].raised
          THEN en' = [en EXCEPT !.pc = "raised"]
          ELSE en' = [en EXCEPT !.completed = @ \ {k}, !.collected = @ \cup {k},
                                !.done = @ + 1,
                                !.writes[TaskItem(k)] =
                                    IF en.res[k].condition # NoCondition THEN @ + 1 ELSE @,
                                !.items[TaskItem(k)].condition =
                                    IF en.res[k].condition # NoCondition
                                    THEN en.res[k].condition ELSE @]
    /\ Frame("en")

\* lines 614-621: every future has been yielded; the pool shuts down
EnrichEnd ==
    /\ en.pc = "pool"
    /\ en.queued = {} /\ en.running = {} /\ en.completed = {}
    /\ en' = [en EXCEPT !.pc = "done"]
    /\ Frame("en")

EnrichNext == EnrichBegin \/ TaskStart \/ TaskFinish \/ Collect \/ EnrichEnd

EnrichSpec == EnrichInit /\ [][EnrichNext]_vars

\* ------------------------------------------------------ filter and sort
\* Python's None where an int is expected, and an int n
NoInt == [none |-> TRUE, v |-> 0]
Int_(n) == [none |-> FALSE, v |-> n]

\* strings are sequences of characters
Digits == <<"0", "1", "2", "3", "4", "5", "6", "7", "8", "9">>
IsDigit(ch) == \E d \in 1..10 : Digits[d] = ch
DigitValue(ch) == (CHOOSE d \in 1..10 : Digits[d] = ch) - 1

RECURSIVE ToInt(_)
ToInt(digits) ==
    IF digits = <<>> THEN 0
    ELSE 10 * ToInt(SubSeq(digits, 1, Len(digits) - 1)) + DigitValue(digits[Len(digits)])

\* the "price" of an item: None, or a text
NoPrice == [none |-> TRUE, text |-> <<>>]
PriceText(t) == [none |-> FALSE, text |-> t]
PriceTexts ==
    { NoPrice, PriceText(<<"$">>), PriceText(<<"$", " ", "1">>), PriceText(<<"1", ".", "2">>) }

\* parse_price_value(price_text), lines 624-633
IsPriceDigit_Never(ch) == FALSE
IsPriceDigit(ch) == IsDigit(ch)
parse_price_value(price_text) ==
    IF price_text.none \/ price_text.text = <<>> THEN NoInt
    ELSE LET digits == SelectSeq(price_text.text, IsPriceDigit)
         IN  IF digits = <<>> THEN NoInt ELSE Int_(ToInt(digits))

\* str.lower() and str.strip()
LowerChar(ch) == IF ch = "A" THEN "a" ELSE IF ch = "B" THEN "b" ELSE ch
Lower(s) == [k \in 1..Len(s) |-> LowerChar(s[k])]
RECURSIVE Strip(_)
Strip(s) ==
    IF s = <<>> THEN s
    ELSE IF s[1] = " " THEN Strip(Tail(s))
    ELSE IF s[Len(s)] = " " THEN Strip(SubSeq(s, 1, Len(s) - 1))
    ELSE s

\* w in t, for strings
Contains(t, w) ==
    \E k \in 0..(Len(t) - Len(w)) : SubSeq(t, k + 1, k + Len(w)) = w

Titles == { <<"A", "b">>, <<"b", "a">> }
FilterWords == { <<>>, <<" ">>, <<" ", "A", "B", " ">> }

\* the items handed to apply_filters and to sort_items_by_price: item k of n
\* has position k
ParsedItems(n) ==
    { s \in [1..n -> [position : 1..n, price : PriceTexts, title : Titles,
                      discount_percent : {NoInt, Int_(1)}]] :
        \A k \in 1..n : s[k].position = k }

\* lines 646-655: the four tests of one item
Passes(item, min_price, max_price, word_lc, min_discount) ==
    LET price_val == parse_price_value(item.price)
        discount == item.discount_percent
    IN  IF min_price > 0 /\ (price_val.none \/ price_val.v < min_price) THEN FALSE
        ELSE IF max_price > 0 /\ (price_val.none \/ price_val.v > max_price) THEN FALSE
        ELSE IF word_lc # <<>> /\ ~Contains(Lower(item.title), word_lc) THEN FALSE
        ELSE IF min_discount > 0 /\ (discount.none \/ discount.v < min_discount) THEN FALSE
        ELSE TRUE

\* apply_filters(items, min_price, max_price, word, min_discount), lines 636-657
RECURSIVE FilterLoop(_, _, _, _, _, _)
FilterLoop(items, min_price, max_price, word_lc, min_discount, out) ==
    IF items = <<>> THEN out
    ELSE FilterLoop(Tail(items), min_price, max_price, word_lc, min_discount,
                    IF Passes(Head(items), min_price, max_price, word_lc, min_discount)
                    THEN Append(out, Head(items)) ELSE out)

apply_filters(items, min_price, max_price, word, min_discount) ==
    FilterLoop(items, min_price, max_price, Lower(Strip(word)), min_discount, <<>>)

FilterInit ==
    /\ CollectOff
    /\ \E n \in 0..MaxFilterItems, lo \in 0..2, hi \in 0..2, w \in FilterWords, d \in 0..2 :
          \E s \in ParsedItems(n) :
             fl = [pc |-> "call", items |-> s, min_price |-> lo, max_price |-> hi,
                   word |-> w, min_discount |-> d, out |-> <<>>]
    /\ OffBut("fl")

\* run, lines 813-819: items = apply_filters(items, ...)
FilterCall ==
    /\ fl.pc = "call"
    /\ fl' = [fl EXCEPT !.pc = "done",
                        !.out = apply_filters(fl.items, fl.min_price, fl.max_price,
                                              fl.word, fl.min_discount)]
    /\ Frame("fl")

FilterNext == FilterCall

FilterSpec == FilterInit /\ [][FilterNext]_vars

\* ------------------------------------- the filter call of the count path
\* lines 636-642: the parameters of apply_filters
ApplyFiltersParameters == {"items", "min_price", "max_price", "word", "min_discount"}

\* server.py, lines 293-301: the arguments of the call in _count_in_process
CountCallArguments ==
    {"items", "min_price", "max_price", "word", "include_words", "min_discount",
     "exclude_words"}

\* the include_words and exclude_words of a payload, stripped and without
\* empty entries
WordLists == { <<>>, <<<<"a">>>>, <<<<"b", "a">>, <<"A">>>> }

CountFilterInit ==
    /\ CollectOff
    /\ \E n \in 0..MaxFilterItems, inc \in WordLists, exc \in WordLists :
          \E s \in ParsedItems(n) :
             fl = [pc |-> "call", items |-> s, min_price |-> 0, max_price |-> 0,
                   word |-> <<>>, min_discount |-> 0, include_words |-> inc,
                   exclude_words |-> exc, status |-> "running", out |-> <<>>]
    /\ OffBut("fl")

\* server.py, lines 293-301: a call with a keyword that is no parameter of
\* the function raises TypeError before the function body runs
CountFilterCall ==
    /\ fl.pc = "call"
    /\ IF CountCallArguments \subseteq ApplyFiltersParameters
       THEN fl' = [fl EXCEPT !.pc = "done", !.status = "returned",
                             !.out = apply_filters(fl.items, fl.min_price, fl.max_price,
                                                   fl.word, fl.min_discount)]
       ELSE fl' = [fl EXCEPT !.pc = "done", !.status = "TypeError"]
    /\ Frame("fl")

CountFilterNext == CountFilterCall

CountFilterSpec == CountFilterInit /\ [][CountFilterNext]_vars

\* ------------------------------------------------------------------ sort
\* lines 661-665: key_fn; the second component of the key of an item without
\* price is 10**18 in the code, and is compared with another such key only
key_fn(item) ==
    LET price == parse_price_value(item.price)
    IN  IF price.none THEN <<1, 10^9>> ELSE <<0, price.v>>

\* a <= b for the tuples of key_fn
KeyLessEq_Strict(a, b) == a[1] < b[1] \/ (a[1] = b[1] /\ a[2] < b[2])
KeyLessEq(a, b) == a[1] < b[1] \/ (a[1] = b[1] /\ a[2] <= b[2])

\* sorted(items, key=key_fn), line 667: a stable sort, here by insertion of
\* each item behind the items that do not come after it
RECURSIVE InsertByKey(_, _)
InsertByKey(sorted_items, item) ==
    IF sorted_items = <<>> THEN <<item>>
    ELSE IF KeyLessEq(key_fn(Head(sorted_items)), key_fn(item))
    THEN <<Head(sorted_items)>> \o InsertByKey(Tail(sorted_items), item)
    ELSE <<item>> \o sorted_items

RECURSIVE SortedByKey(_)
SortedByKey(items) ==
    IF items = <<>> THEN <<>>
    ELSE InsertByKey(SortedByKey(SubSeq(items, 1, Len(items) - 1)), items[Len(items)])

\* lines 668-669: item["position"] = idx
Renumber_Keep(items) == items
Renumber(items) == [k \in 1..Len(items) |-> [items[k] EXCEPT !.position = k]]

\* sort_items_by_price(items), lines 660-670
sort_items_by_price(items) == Renumber(SortedByKey(items))

SortPrices ==
    { NoPrice, PriceText(<<"$">>), PriceText(<<"$", " ", "1">>), PriceText(<<"0", "1">>),
      PriceText(<<"1", ".", "2">>) }

\* the items handed to sort_items_by_price: item k has link k and the
\* position it got from its page
SortItems(n) ==
    { s \in [1..n -> [link : 1..n, position : 1..2, price : SortPrices]] :
        \A k \in 1..n : s[k].link = k }

SortInit ==
    /\ CollectOff
    /\ \E n \in 0..MaxSortItems :
          \E s \in SortItems(n) : so = [pc |-> "call", items |-> s, out |-> <<>>]
    /\ OffBut("so")

\* run, lines 836-837: items = sort_items_by_price(items)
SortCall ==
    /\ so.pc = "call"
    /\ so' = [so EXCEPT !.pc = "done", !.out = sort_items_by_price(so.items)]
    /\ Frame("so")

SortNext == SortCall

SortSpec == SortInit /\ [][SortNext]_vars

\* ------------------------------------------------------- the command line
\* line 797: parse_limit = limit if condition_filter == "any"
\*           else min(max(limit * 4, limit), 80)
parse_limit(limit_, condition_filter) ==
    IF condition_filter = "any" THEN limit_ ELSE Min(Max(limit_ * 4, limit_), 80)

\* what collect_results can return to run: up to n items, item k with link k
\* and position k, without condition
RunItems(n) ==
    { s \in [1..n -> [link : 1..n, position : 1..n, title : {<<"A", "b">>},
                      price : {NoPrice, PriceText(<<"$", " ", "1">>), PriceText(<<"1", ".", "2">>)},
                      discount_percent : {NoInt, Int_(1), Int_(2)},
                      condition : {NoCondition}]] :
        \A k \in 1..n : s[k].link = k /\ s[k].position = k }

\* lines 821-823: for item in items: item["condition"] = condition_filter
WithCondition(items, condition_filter) ==
    IF condition_filter # "any"
    THEN [k \in 1..Len(items) |-> [items[k] EXCEPT !.condition = condition_filter]]
    ELSE items

\* enrich_items_with_condition(items), lines 599-621, where found[k] is the
\* condition that the fetch for item k returns
Enriched(items, found) ==
    [k \in 1..Len(items) |->
        IF IsPending(items[k]) /\ found[k] # NoCondition
        THEN [items[k] EXCEPT !.condition = found[k]] ELSE items[k]]

HasCondition(item, condition_filter) == item.condition = condition_filter

\* line 835: items[:limit]
Slice_Whole(items, n) == items
Slice(items, n) == SubSeq(items, 1, Min(Len(items), n))

\* lines 832-835: the condition filter and the cut to limit
ConditionCut(items, condition_filter, fetch_all_, limit_) ==
    IF condition_filter = "any" THEN items
    ELSE LET kept == SelectSeq(items, LAMBDA item : HasCondition(item, condition_filter))
         IN  IF fetch_all_ THEN kept ELSE Slice(kept, limit_)

\* lines 836-840: sort by price, or renumber in the order at hand
Ranked(items, sort_price) ==
    IF sort_price THEN sort_items_by_price(items) ELSE Renumber(items)

\* run, lines 813-840, on the items that collect_results returned
RunItemsOut(a, collected_, found) ==
    LET filtered == apply_filters(collected_, a.min_price, a.max_price, a.word, a.min_discount)
        marked == WithCondition(filtered, a.condition)
        enriched == IF a.include_condition /\ marked # <<>>
                    THEN Enriched(marked, found) ELSE marked
    IN  Ranked(ConditionCut(enriched, a.condition, a.all_results, a.limit), a.sort_price)

\* the query words of the command line, joined; a cookie file argument
Queries == { <<>>, <<" ">>, <<"t", "v">> }
CookieFiles == { "none", "missing" }

MainInit ==
    /\ CollectOff
    /\ \E q \in Queries, l \in 0..MaxLimit, c \in {"any", "used"}, all \in BOOLEAN,
          d \in {0, 2}, sp \in BOOLEAN, ic \in BOOLEAN, cf \in CookieFiles :
          cl = [pc |-> "validate",
                args |-> [query |-> q, limit |-> l, condition |-> c, all_results |-> all,
                          min_price |-> 0, max_price |-> 0, word |-> <<>>,
                          min_discount |-> d, sort_price |-> sp,
                          include_condition |-> ic, cookie_file |-> cf],
                log |-> <<>>, parse_limit |-> 0, collected |-> <<>>, items |-> <<>>,
                exit_code |-> 0 - 1]
    /\ OffBut("cl")

\* lines 1002 and 1007: the two tests on the arguments
QueryRejected(query) == Strip(query) = <<>>
LimitRejected_Negative(limit_) == limit_ < 0
LimitRejected(limit_) == limit_ < 1

\* main, lines 989-1010: parse and check the arguments
MainValidate ==
    /\ cl.pc = "validate"
    /\ IF QueryRejected(cl.args.query) \/ LimitRejected(cl.args.limit)
       THEN cl' = [cl EXCEPT !.pc = "exit", !.exit_code = 2]
       ELSE cl' = [cl EXCEPT !.pc = "configure"]
    /\ Frame("cl")

\* main, lines 1012-1013 and 1032-1035: configure_cookie_header reads the
\* cookie file; an exception of it ends main with code 1
MainConfigure ==
    /\ cl.pc = "configure"
    /\ IF cl.args.cookie_file = "missing"
       THEN cl' = [cl EXCEPT !.pc = "exit", !.exit_code = 1,
                             !.log = Append(@, "configure_cookie_header")]
       ELSE cl' = [cl EXCEPT !.pc = "run", !.log = Append(@, "configure_cookie_header")]
    /\ Frame("cl")

\* main, lines 1014-1035, and run, lines 797-867: the crawl raises, or
\* returns at most parse_limit items (all items when fetch_all is set);
\* product pages are fetched only when the enrichment pass has pending items
MainRun ==
    /\ cl.pc = "run"
    /\ LET a == [cl.args EXCEPT !.min_discount = Max(0, Min(100, cl.args.min_discount))]
           pl == parse_limit(a.limit, a.condition)
       IN  \/ cl' = [cl EXCEPT !.pc = "exit", !.exit_code = 1, !.parse_limit = pl,
                               !.log = Append(@, "collect_results")]
           \/ \E n \in 0..MaxRunItems :
                 /\ ~a.all_results => n <= pl
                 /\ \E s \in RunItems(n),
                       found \in IF a.include_condition /\ a.condition = "any"
                                 THEN [1..n -> {NoCondition, "new"}]
                                 ELSE {[k \in 1..n |-> NoCondition]} :
                       LET out == RunItemsOut(a, s, found)
                       IN  cl' = [cl EXCEPT !.pc = "exit", !.parse_limit = pl,
                                            !.collected = s, !.items = out,
                                            !.exit_code = IF out = <<>> THEN 1 ELSE 0,
                                            !.log = Append(@, "collect_results")]
    /\ Frame("cl")

MainNext == MainValidate \/ MainConfigure \/ MainRun

MainSpec == MainInit /\ [][MainNext]_vars

\* ------------------------------------------------------------ spreadsheet
\* str(n) for n >= 0
RECURSIVE StrOfInt(_)
StrOfInt(n) ==
    IF n < 10 THEN <<Digits[n + 1]>> ELSE StrOfInt(n \div 10) \o <<Digits[(n % 10) + 1]>>

\* xml_escape(value), lines 673-680
EscapeChar(ch) ==
    IF ch = "&" THEN <<"&", "a", "m", "p", ";">>
    ELSE IF ch = "<" THEN <<"&", "l", "t", ";">>
    ELSE IF ch = ">" THEN <<"&", "g", "t", ";">>
    ELSE IF ch = "\"" THEN <<"&", "q", "u", "o", "t", ";">>
    ELSE IF ch = "'" THEN <<"&", "a", "p", "o", "s", ";">>
    ELSE <<ch>>
RECURSIVE xml_escape(_)
xml_escape(value) ==
    IF value = <<>> THEN <<>> ELSE EscapeChar(Head(value)) \o xml_escape(Tail(value))

\* line 684
headers ==
    << <<"P", "o", "s", "i", "c", "i", "o", "n">>, <<"T", "i", "t", "u", "l", "o">>,
       <<"P", "r", "e", "c", "i", "o">>, <<"D", "e", "s", "c", "u", "e", "n", "t", "o">>,
       <<"E", "s", "t", "a", "d", "o">>, <<"L", "i", "n", "k">> >>

\* line 686 and line 694: state_map.get(condition, "N/D")
state_map(condition) ==
    IF condition = "new" THEN <<"N", "u", "e", "v", "o">>
    ELSE IF condition = "used" THEN <<"U", "s", "a", "d", "o">>
    ELSE IF condition = "reconditioned"
    THEN <<"R", "e", "a", "c", "o", "n", "d", "i", "c", "i", "o", "n", "a", "d", "o">>
    ELSE <<"N", "/", "D">>

\* a cell value: an int, or a text
IntValue(n) == [isint |-> TRUE, n |-> n, text |-> <<>>]
TextValue(t) == [isint |-> FALSE, n |-> 0, text |-> t]

\* lines 688-697: the row of item number idx
ItemRow(idx, item) ==
    << IntValue(idx),
       TextValue(item.title),
       TextValue(IF item.price.none THEN <<>> ELSE item.price.text),
       TextValue(IF item.discount_percent.none THEN <<>>
                 ELSE StrOfInt(item.discount_percent.v) \o <<"%">>),
       TextValue(state_map(item.condition)),
       TextValue(item.link) >>

Letters ==
    <<"A", "B", "C", "D", "E", "F", "G", "H", "I", "J", "K", "L", "M", "N", "O", "P", "Q",
      "R", "S", "T", "U", "V", "W", "X", "Y", "Z">>

\* lines 704-708: the column name of column c_idx
ColumnRem_Shifted(n) == n % 26
ColumnRem(n) == (n - 1) % 26
RECURSIVE ColumnLoop(_, _)
ColumnLoop(n, col) ==
    IF n = 0 THEN col
    ELSE ColumnLoop((n - 1) \div 26, <<Letters[ColumnRem(n) + 1]>> \o col)

\* lines 709-713: one cell
Cell(r_idx, c_idx, value) ==
    IF value.isint
    THEN [col |-> ColumnLoop(c_idx, <<>>), row |-> r_idx, t |-> "n", v |-> StrOfInt(value.n)]
    ELSE [col |-> ColumnLoop(c_idx, <<>>), row |-> r_idx, t |-> "inlineStr",
          v |-> xml_escape(value.text)]

\* lines 701-714: one <row> element
SheetRow(r_idx, row) ==
    [r |-> r_idx, cells |-> [c_idx \in 1..Len(row) |-> Cell(r_idx, c_idx, row[c_idx])]]

\* the items handed to build_xlsx_bytes: item k has link "/k"
XlsxItems(n) ==
    { s \in [1..n -> [link : { <<"/">> \o StrOfInt(k) : k \in 1..n },
                      title : { <<>>, <<"A", "<", "&">> },
                      price : {NoPrice, PriceText(<<"$", " ", "1">>)},
                      discount_percent : {NoInt, Int_(12)},
                      condition : {NoCondition, "new"}]] :
        \A k \in 1..n : s[k].link = <<"/">> \o StrOfInt(k) }

XlsxInit ==
    /\ CollectOff
    /\ \E n \in 0..MaxXlsxItems :
          \E s \in XlsxItems(n) :
             xl = [pc |-> "rows", items |-> s, rows |-> <<>>, sheet_rows |-> <<>>,
                   parts |-> <<>>]
    /\ OffBut("xl")

\* lines 684-698: the header row and one row for each item
XlsxRows ==
    /\ xl.pc = "rows"
    /\ xl' = [xl EXCEPT !.pc = "sheet",
                        !.rows = <<[c \in 1..Len(headers) |-> TextValue(headers[c])]>>
                                 \o [k \in 1..Len(xl.items) |-> ItemRow(k, xl.items[k])]]
    /\ Frame("xl")

\* lines 700-714: one iteration of the loop over the rows
XlsxSheetRow ==
    /\ xl.pc = "sheet"
    /\ Len(xl.sheet_rows) < Len(xl.rows)
    /\ LET r_idx == Len(xl.sheet_rows) + 1
       IN  xl' = [xl EXCEPT !.sheet_rows = Append(@, SheetRow(r_idx, xl.rows[r_idx]))]
    /\ Frame("xl")

\* lines 716-763: the five parts of the package
XlsxZip ==
    /\ xl.pc = "sheet"
    /\ Len(xl.sheet_rows) = Len(xl.rows)
    /\ xl' = [xl EXCEPT !.pc = "done",
                        !.parts = <<"[Content_Types].xml", "_rels/.rels", "xl/workbook.xml",
                                    "xl/_rels/workbook.xml.rels", "xl/worksheets/sheet1.xml">>]
    /\ Frame("xl")

XlsxNext == XlsxRows \/ XlsxSheetRow \/ XlsxZip

XlsxSpec == XlsxInit /\ [][XlsxNext]_vars

\* ---------------------------------------------------------- filter tokens
\* the tokens: "OrderId_PRICE", "PriceRange_{low}-{high}",
\* "Discount_{low}-100", a condition token, "NoIndex_True" and
\* LOCAL_SHIPPING_FILTER
Token(kind, low, high, name) == [kind |-> kind, low |-> low, high |-> high, name |-> name]

\* lines 36-40: CONDITION_TOKEN_BY_FILTER.get(condition_filter)
KnownCondition_NewOnly(condition_filter) == condition_filter = "new"
KnownCondition(condition_filter) == condition_filter \in {"new", "used", "reconditioned"}
CONDITION_TOKEN_BY_FILTER(condition_filter) ==
    IF condition_filter = "new" THEN "ITEM*CONDITION_2230284"
    ELSE IF condition_filter = "used" THEN "ITEM*CONDITION_2230581"
    ELSE "ITEM*CONDITION_2234833"

\* build_filter_tokens, lines 240-265
build_filter_tokens(min_price, max_price, min_discount, sort_price, exclude_international, condition_filter) ==
    LET low == Max(0, min_price)
        high == IF max_price > 0 THEN max_price ELSE 999999999
        t1 == IF sort_price THEN <<Token("sort", 0, 0, "OrderId_PRICE")>> ELSE <<>>
        t2 == IF min_price > 0 \/ max_price > 0
              THEN IF high < low
                   THEN Append(t1, Token("price", high, low, "PriceRange"))
                   ELSE Append(t1, Token("price", low, high, "PriceRange"))
              ELSE t1
        t3 == IF min_discount > 0
              THEN Append(t2, Token("discount", Max(1, Min(min_discount, 100)), 100, "Discount"))
              ELSE t2
        t4 == IF KnownCondition(condition_filter)
              THEN Append(t3, Token("condition", 0, 0, CONDITION_TOKEN_BY_FILTER(condition_filter)))
              ELSE t3
        t5 == Append(t4, Token("noindex", 0, 0, "NoIndex_True"))
    IN  IF exclude_international
        THEN Append(t5, Token("shipping", 0, 0, "SHIPPING*ORIGIN_10215068"))
        ELSE t5

TokensInit ==
    /\ CollectOff
    /\ \E lo \in (0 - 1)..2, hi \in (0 - 1)..2, d \in {0 - 1, 0, 50, 101}, sp \in BOOLEAN,
          ei \in BOOLEAN, c \in {"any", "new", "used", "reconditioned", "other"} :
          tk = [pc |-> "call", min_price |-> lo, max_price |-> hi, min_discount |-> d,
                sort_price |-> sp, exclude_international |-> ei, condition_filter |-> c,
                tokens |-> <<>>]
    /\ OffBut("tk")

\* build_search_url_with_start, lines 289-294: the call of build_filter_tokens
TokensCall ==
    /\ tk.pc = "call"
    /\ tk' = [tk EXCEPT !.pc = "done",
                        !.tokens = build_filter_tokens(tk.min_price, tk.max_price,
                                       tk.min_discount, tk.sort_price,
                                       tk.exclude_international, tk.condition_filter)]
    /\ Frame("tk")

TokensNext == TokensCall

TokensSpec == TokensInit /\ [][TokensNext]_vars

\* ------------------------------------------------------ the watched crawl
\* collect_results, lines 394-405, for a crawl whose last page stays in html
\* until the next iteration clears it; without page cap, or with the largest
WatchInit ==
    /\ fetch_all \in BOOLEAN
    /\ limit \in IF fetch_all THEN {MaxLimit} ELSE 1..MaxLimit
    /\ max_pages \in {0, MaxPagesCap}
    /\ search_url \in {None, [kind |-> "link", n |-> 1]}
    /\ pc = "loop" /\ status = "running" /\ reason = "none" /\ result = <<>>
    /\ jar = _build_opener
    /\ page_count = 0 /\ current_start = 1 /\ next_url = search_url /\ current_url = None
    /\ empty_streak = 0 /\ shell_page_streak = 0 /\ seen_links = {} /\ collected = <<>>
    /\ html = NoHtml /\ attempts = 0 /\ fallback_tried = 0 /\ call = NoCall
    /\ zero_run = 0 /\ shell_run = 0 /\ empty_run = 0 /\ watch = TRUE
    /\ OffBut("none")

WatchSpec == WatchInit /\ [][Next]_vars

\* ------------------------------------------- the requests of one command
\* strings are sequences of characters; Bom stands for the byte order mark
Bom == "bom"

\* str.lstrip of the byte order mark
RECURSIVE LstripBom(_)
LstripBom(s) == IF s # <<>> /\ s[1] = Bom THEN LstripBom(Tail(s)) ELSE s

\* the index of the first c in s, or 0
FirstIndex(s, c) ==
    IF \E k \in 1..Len(s) : s[k] = c
    THEN CHOOSE k \in 1..Len(s) : s[k] = c /\ \A j \in 1..(k - 1) : s[j] # c
    ELSE 0

\* str.split(c)
RECURSIVE SplitOn(_, _)
SplitOn(s, c) ==
    IF FirstIndex(s, c) = 0 THEN <<s>>
    ELSE <<SubSeq(s, 1, FirstIndex(s, c) - 1)>>
         \o SplitOn(SubSeq(s, FirstIndex(s, c) + 1, Len(s)), c)

\* sep.join(parts)
RECURSIVE Join(_, _)
Join(strs, sep) ==
    IF strs = <<>> THEN <<>>
    ELSE IF Len(strs) = 1 THEN strs[1]
    ELSE strs[1] \o sep \o Join(Tail(strs), sep)

\* _parse_cookie_pairs, lines 152-160: the name=value pair of one token, or
\* nothing for a token without "=" or without name
CookiePair(token) ==
    LET t == Strip(token)
        k == FirstIndex(t, "=")
    IN  IF t = <<>> \/ k = 0 THEN <<>>
        ELSE IF Strip(SubSeq(t, 1, k - 1)) = <<>> THEN <<>>
        ELSE << Strip(SubSeq(t, 1, k - 1)) \o <<"=">> \o Strip(SubSeq(t, k + 1, Len(t))) >>

RECURSIVE CookiePairs(_)
CookiePairs(tokens) ==
    IF tokens = <<>> THEN <<>> ELSE CookiePair(tokens[1]) \o CookiePairs(Tail(tokens))

\* _parse_cookie_pairs(raw), lines 150-161
_parse_cookie_pairs(raw) == Join(CookiePairs(SplitOn(raw, ";")), <<";", " ">>)

\* a string that may be None
Absent == [given |-> FALSE, text |-> <<>>]
Text(s) == [given |-> TRUE, text |-> s]
Truthy(x) == x.given /\ x.text # <<>>

\* a cookie file: none named, one that cannot be read, or its text
NoFile == [named |-> FALSE, readable |-> FALSE, text |-> <<>>]
MissingFile == [named |-> TRUE, readable |-> FALSE, text |-> <<>>]
FileWith(text) == [named |-> TRUE, readable |-> TRUE, text |-> text]

\* configure_cookie_header(cookie_inline, cookie_file), lines 165-172: the
\* value stored in REQUEST_COOKIE_HEADER; the read of a file that cannot be
\* read raises
configure_cookie_header(cookie_inline, cookie_file) ==
    LET content == IF cookie_file.named THEN Strip(LstripBom(cookie_file.text))
                   ELSE IF Truthy(cookie_inline)
                   THEN Strip(LstripBom(cookie_inline.text))
                   ELSE <<>>
    IN  IF cookie_file.named /\ ~cookie_file.readable
        THEN [raised |-> TRUE, header |-> Absent]
        ELSE [raised |-> FALSE,
              header |-> IF content # <<>> THEN Text(_parse_cookie_pairs(content))
                         ELSE Absent]

\* _read_html, lines 142-146: the request sent through an opener whose jar
\* has the number jar_id and holds the cookies jar_cookies, while the
\* process-wide header is header
_read_html(sender, jar_id, jar_cookies, header) ==
    [by |-> sender, jar_id |-> jar_id, jar_cookies |-> jar_cookies,
     Cookie |-> IF Truthy(header) THEN header ELSE Absent]

CookieTexts ==
    { <<>>, <<" ">>, <<"j">>, <<"=", "v">>, <<"s", "=", "1">>,
      <<Bom, " ", "s", " ", "=", "1", ";", "j", ";", "b", "=">> }

\* main, lines 1012-1013, for a command with valid arguments
RequestInit ==
    /\ CollectOff
    /\ \E c \in {Text(t) : t \in CookieTexts} \cup {Absent}, f \in {NoFile, MissingFile, FileWith(<<"f", "=", "2">>)} :
          rq = [pc |-> "configure", cookie |-> c, cookie_file |-> f,
                REQUEST_COOKIE_HEADER |-> Absent, jars |-> 0, jar |-> {},
                pending |-> 0, sent |-> <<>>]
    /\ OffBut("rq")

\* main, lines 1012-1013 and 1035-1038; collect_results, line 394: the crawl
\* builds its opener and jar
RequestConfigure ==
    /\ rq.pc = "configure"
    /\ LET r == configure_cookie_header(rq.cookie, rq.cookie_file)
       IN  IF r.raised
           THEN rq' = [rq EXCEPT !.pc = "exit"]
           ELSE rq' = [rq EXCEPT !.pc = "crawl", !.REQUEST_COOKIE_HEADER = r.header,
                                 !.jars = 1]
    /\ Frame("rq")

\* fetch_page_with_challenge, lines 355 and 363: a request of the crawl
\* through the crawl's opener; the answer may store cookies in the jar
CrawlRequest ==
    /\ rq.pc = "crawl"
    /\ Len(rq.sent) < MaxCrawlRequests
    /\ \E stored \in SUBSET {"_bmstate", "_bmc"} :
          rq' = [rq EXCEPT !.sent = Append(@, _read_html("crawl", 1, rq.jar,
                                                         rq.REQUEST_COOKIE_HEADER)),
                           !.jar = @ \cup stored]
    /\ Frame("rq")

\* run, lines 826-831: the crawl is over and the enrichment pass has n
\* pending items
CrawlEnd ==
    /\ rq.pc = "crawl"
    /\ rq.sent # <<>>
    /\ \E n \in 0..MaxDetailPages :
          rq' = [rq EXCEPT !.pc = IF n = 0 THEN "exit" ELSE "enrich", !.pending = n]
    /\ Frame("rq")

\* fetch_url_html, lines 175-177: a new opener and jar, and one request
\* through them
DetailRequest ==
    /\ rq.pc = "enrich"
    /\ rq.pending > 0
    /\ rq' = [rq EXCEPT !.jars = @ + 1, !.pending = @ - 1,
                        !.sent = Append(@, _read_html("enricher", rq.jars + 1, {},
                                                      rq.REQUEST_COOKIE_HEADER))]
    /\ Frame("rq")

\* enrich_items_with_condition, lines 614-621: every task has ended
EnrichDone ==
    /\ rq.pc = "enrich"
    /\ rq.pending = 0
    /\ rq' = [rq EXCEPT !.pc = "exit"]
    /\ Frame("rq")

RequestNext == RequestConfigure \/ CrawlRequest \/ CrawlEnd \/ DetailRequest \/ EnrichDone

RequestSpec == RequestInit /\ [][RequestNext]_vars

\* ------------------------------------- the count requests of one process
\* lines 379-393: the parameters of collect_results
CollectResultsParameters ==
    {"query", "country", "limit", "fetch_all", "max_pages", "exclude_international",
     "min_price", "max_price", "min_discount", "sort_price", "condition_filter",
     "search_url", "timeout"}

\* server.py, lines 277-291: the arguments of the call in _count_in_process
CountCrawlArguments ==
    {"query", "country", "limit", "fetch_all", "max_pages", "exclude_international",
     "min_price", "max_price", "min_discount", "sort_price", "condition_filter",
     "search_url", "quiet"}

\* server.py, lines 175-182: _try_read_cookie_header, the text of the
\* payload's cookie file, or "" without file or when it cannot be read
_try_read_cookie_header(cookie_file) ==
    IF cookie_file.named /\ cookie_file.readable
    THEN Strip(LstripBom(cookie_file.text)) ELSE <<>>

\* server.py, line 31
COUNT_CACHE_TTL_SECONDS == 300

\* the time between two readings of the clock that differ
TickSeconds == COUNT_CACHE_TTL_SECONDS \div 2

\* server.py, lines 34-51: a SearchPayload, with the fields that vary here
Payload(q, w, p, f) == [query |-> q, word |-> w, min_price |-> p, cookie_file |-> f]

\* the payloads of count request i: a blank query; a blank word and a title
\* filter; a negative and no minimum price; a cookie file that cannot be
\* read and the request's own
Payloads(i) ==
    { Payload(<<" ">>, <<>>, 0, NoFile) }
    \cup { Payload(<<"t">>, w, 0, NoFile) : w \in {<<" ">>, <<"a">>} }
    \cup { Payload(<<"t">>, <<>>, p, NoFile) : p \in {0 - 1, 0} }
    \cup { Payload(<<"t">>, <<>>, 0, f) : f \in {MissingFile, FileWith(<<"s", "=", StrOfInt(i)[1]>>)} }

\* server.py, lines 134-153: _payload_cache_key, the normalized parameters
\* that are serialized and hashed
_payload_cache_key_NoWord(payload) == [query |-> Strip(payload.query), word |-> <<>>, min_price |-> Max(0, payload.min_price), cookie_file |-> payload.cookie_file]
_payload_cache_key(payload) ==
    [query |-> Strip(payload.query), word |-> Strip(payload.word),
     min_price |-> Max(0, payload.min_price), cookie_file |-> payload.cookie_file]

\* server.py, lines 156-166: _cache_get(key) at the time now: the entry
\* found, whether it is served, and the cache afterwards
LiveEntry_Forever(entry, now) == TRUE
LiveEntry(entry, now) == ~(entry.expires_at < now)

_cache_get(cache, key, now) ==
    LET found == { e \in cache : e.key = key }
    IN  IF found = {} THEN [hit |-> FALSE, cache |-> cache, entries |-> {}]
        ELSE IF \E e \in found : ~LiveEntry(e, now)
        THEN [hit |-> FALSE, cache |-> cache \ found, entries |-> {}]
        ELSE [hit |-> TRUE, cache |-> cache, entries |-> found]

\* server.py, lines 169-172: _cache_set(key, value) at the time now, for the
\* response to payload
_cache_set(cache, payload, count, now) ==
    { e \in cache : e.key # _payload_cache_key(payload) }
    \cup { [key |-> _payload_cache_key(payload),
            expires_at |-> now + COUNT_CACHE_TTL_SECONDS,
            count |-> count, payload |-> payload, stored_at |-> now] }

\* what the request of the first page meets: no answer, an error status, or
\* a page, which may be the challenge page, with or without a total
FirstPageResponses ==
    { [kind |-> "timeout", status |-> 0, challenge |-> FALSE, total |-> NoInt],
      [kind |-> "page", status |-> 503, challenge |-> FALSE, total |-> NoInt] }
    \cup { [kind |-> "page", status |-> 200, challenge |-> c, total |-> t] :
             c \in BOOLEAN, t \in {NoInt, Int_(7), Int_(9999), Int_(10000)} }

\* server.py, line 238: a title filter is set
HasTitleFilter(payload) == Strip(payload.word) # <<>>

\* server.py, line 266: total in {9999, 10000}
IsSentinel(total) == total \in {9999, 10000}

\* server.py, lines 236-268: _count_via_first_page_total(payload) on the
\* answer resp; with httpx an error status gives None, without it urlopen
\* raises HTTPError
_count_via_first_page_total(payload, httpx, resp) ==
    IF HasTitleFilter(payload)
    THEN [raised |-> FALSE, total |-> NoInt, requested |-> FALSE, why |-> "filter"]
    ELSE IF resp.kind = "timeout"
    THEN [raised |-> TRUE, total |-> NoInt, requested |-> TRUE, why |-> "timeout"]
    ELSE IF resp.status >= 400
    THEN [raised |-> ~httpx, total |-> NoInt, requested |-> TRUE, why |-> "http_error"]
    ELSE IF resp.challenge
    THEN [raised |-> FALSE, total |-> NoInt, requested |-> TRUE, why |-> "challenge"]
    ELSE IF resp.total.none
    THEN [raised |-> FALSE, total |-> NoInt, requested |-> TRUE, why |-> "no_total"]
    ELSE IF IsSentinel(resp.total.v)
    THEN [raised |-> FALSE, total |-> NoInt, requested |-> TRUE, why |-> "sentinel"]
    ELSE [raised |-> FALSE, total |-> resp.total, requested |-> TRUE, why |-> "total"]

NoEntry == [key |-> _payload_cache_key(Payload(<<>>, <<>>, 0, NoFile)), expires_at |-> 0 - 1,
            count |-> NoInt, payload |-> Payload(<<>>, <<>>, 0, NoFile), stored_at |-> 0 - 1]

\* the process with an empty cache (server.py, lines 31-33) and the count
\* requests it is about to serve; httpx is installed or not
ServerInit ==
    /\ CollectOff
    /\ \E p \in [1..MaxInvocations -> UNION { Payloads(i) : i \in 1..MaxInvocations }], hx \in BOOLEAN :
          /\ \A i \in 1..MaxInvocations : p[i] \in Payloads(i)
          /\ sr = [pc |-> "serving", REQUEST_COOKIE_HEADER |-> Absent, httpx |-> hx,
                   _COUNT_CACHE |-> {}, sent |-> {}, now |-> 0,
                   inv |-> [i \in 1..MaxInvocations |->
                              [pc |-> "start", payload |-> p[i], status_code |-> 0,
                               error |-> "none", count |-> NoInt, count_source |-> "none",
                               cache_hit |-> FALSE, fast |-> "none", served |-> NoEntry,
                               age |-> 0, evicted |-> FALSE]]]
    /\ OffBut("sr")

\* server.py, lines 334-335: an exception becomes the answer 400; lines
\* 313-314: so does a payload without query and url
End(i, code, why) ==
    sr' = [sr EXCEPT !.inv[i].pc = "done", !.inv[i].status_code = code,
                     !.inv[i].error = why]

\* server.py, lines 312-323: the test of the payload and the cache lookup
CountBegin(i) ==
    /\ sr.inv[i].pc = "start"
    /\ LET got == _cache_get(sr._COUNT_CACHE, _payload_cache_key(sr.inv[i].payload), sr.now)
       IN  IF Strip(sr.inv[i].payload.query) = <<>>
           THEN End(i, 400, "no_query")
           ELSE IF got.hit
           THEN \E e \in got.entries :
                   sr' = [sr EXCEPT !.inv[i].pc = "done", !.inv[i].status_code = 200,
                                    !.inv[i].count = e.count, !.inv[i].cache_hit = TRUE,
                                    !.inv[i].count_source = "first_page_total",
                                    !.inv[i].served = e,
                                    !.inv[i].age = sr.now - e.stored_at]
           ELSE sr' = [sr EXCEPT !._COUNT_CACHE = got.cache, !.inv[i].pc = "fast",
                                 !.inv[i].evicted = (got.cache # sr._COUNT_CACHE)]
    /\ Frame("sr")

\* server.py, lines 236-268, 328-332 and 353: the first-page total: the
\* request carries the payload's own cookie text; a total is the answer and
\* is stored in the cache, an exception is the answer 400, and None leads
\* to the crawl
CountFirstPage(i) ==
    /\ sr.inv[i].pc = "fast"
    /\ \E resp \in FirstPageResponses :
          LET r == _count_via_first_page_total(sr.inv[i].payload, sr.httpx, resp)
              h == _try_read_cookie_header(sr.inv[i].payload.cookie_file)
              req == [by |-> i, path |-> "first_page",
                      Cookie |-> IF h # <<>> THEN Text(h) ELSE Absent]
              out == IF r.requested THEN sr.sent \cup {req} ELSE sr.sent
          IN  IF r.raised
              THEN sr' = [sr EXCEPT !.sent = out, !.inv[i].pc = "done",
                                    !.inv[i].status_code = 400, !.inv[i].error = r.why,
                                    !.inv[i].fast = r.why]
              ELSE IF r.total.none
              THEN sr' = [sr EXCEPT !.sent = out, !.inv[i].pc = "configure",
                                    !.inv[i].fast = r.why]
              ELSE sr' = [sr EXCEPT !.sent = out, !.inv[i].pc = "done",
                                    !.inv[i].status_code = 200, !.inv[i].count = r.total,
                                    !.inv[i].count_source = "first_page_total",
                                    !.inv[i].fast = r.why,
                                    !._COUNT_CACHE = _cache_set(@, sr.inv[i].payload,
                                                                r.total, sr.now)]
    /\ Frame("sr")

\* server.py, line 272: ml.configure_cookie_header(None, cookie_file or
\* None) stores the header in the variable of the module
CountConfigure(i) ==
    /\ sr.inv[i].pc = "configure"
    /\ LET r == configure_cookie_header(Absent, sr.inv[i].payload.cookie_file)
       IN  IF r.raised
           THEN End(i, 400, "cookie_file")
           ELSE sr' = [sr EXCEPT !.REQUEST_COOKIE_HEADER = r.header, !.inv[i].pc = "call"]
    /\ Frame("sr")

\* server.py, lines 277-301 and 333-334: the call of ml.collect_results; a
\* keyword that is not a parameter raises TypeError before the crawl starts;
\* else the crawl sends its requests with the header of the module, and the
\* call of ml.apply_filters that follows raises TypeError
CountCrawl(i) ==
    /\ sr.inv[i].pc = "call"
    /\ IF CountCrawlArguments \subseteq CollectResultsParameters
       THEN sr' = [sr EXCEPT !.inv[i].pc = "done", !.inv[i].status_code = 400,
                             !.inv[i].error = "TypeError",
                             !.sent = @ \cup {[by |-> i, path |-> "crawl",
                                               Cookie |-> _read_html("crawl", i, {},
                                                   sr.REQUEST_COOKIE_HEADER).Cookie]}]
       ELSE End(i, 400, "TypeError")
    /\ Frame("sr")

ServerNext ==
    \E i \in 1..MaxInvocations :
        CountBegin(i) \/ CountFirstPage(i) \/ CountConfigure(i) \/ CountCrawl(i)

ServerSpec == ServerInit /\ [][ServerNext]_vars

\* ------------------------------------------------ the count cache in time
\* the process with an empty cache and count requests for the same search,
\* written with a negative and without minimum price
CacheInit ==
    /\ CollectOff
    /\ \E p \in [1..MaxInvocations -> { Payload(<<"t">>, <<>>, m, NoFile) : m \in {0 - 1, 0} }], hx \in BOOLEAN :
          sr = [pc |-> "serving", REQUEST_COOKIE_HEADER |-> Absent, httpx |-> hx,
                _COUNT_CACHE |-> {}, sent |-> {}, now |-> 0,
                inv |-> [i \in 1..MaxInvocations |->
                           [pc |-> "start", payload |-> p[i], status_code |-> 0,
                            error |-> "none", count |-> NoInt, count_source |-> "none",
                            cache_hit |-> FALSE, fast |-> "none", served |-> NoEntry,
                            age |-> 0, evicted |-> FALSE]]]
    /\ OffBut("sr")

\* server.py, lines 157 and 170: time passes between two readings of the clock
Tick ==
    /\ sr.pc = "serving"
    /\ sr.now < MaxTicks * TickSeconds
    /\ sr' = [sr EXCEPT !.now = @ + TickSeconds]
    /\ Frame("sr")

CacheNext == ServerNext \/ Tick

CacheSpec == CacheInit /\ [][CacheNext]_vars

\* ------------------------------------------------------------ the daily job
\* automation/daily_job.py: one run of main over the queries of a config

MaxQueries == 2      \* queries of a config
MaxJobItems == 2     \* items one crawl produces

\* the standard output of a command is a sequence of tokens: the brackets
\* and commas of a JSON list, its items, and lines of other text
Tok(ch) == [ch |-> ch, v |-> 0]
ItemTok(k) == [ch |-> "item", v |-> k]
Line(text) == [ch |-> text, v |-> 0]

\* json.dumps of a list of items
RECURSIVE Commas(_)
Commas(items) ==
    IF items = <<>> THEN <<>>
    ELSE IF Len(items) = 1 THEN <<ItemTok(items[1])>>
    ELSE <<ItemTok(items[1]), Tok(",")>> \o Commas(Tail(items))
json_dumps(items) == <<Tok("[")>> \o Commas(items) \o <<Tok("]")>>

\* json.loads of a text: a list of items, or JSONDecodeError
json_loads(text) ==
    LET inner == SubSeq(text, 2, Len(text) - 1)
        n == (Len(inner) + 1) \div 2
        well == /\ Len(text) >= 2 /\ text[1] = Tok("[") /\ text[Len(text)] = Tok("]")
                /\ inner = <<>> \/ Len(inner) % 2 = 1
                /\ \A k \in 1..Len(inner) :
                      IF k % 2 = 1 THEN inner[k].ch = "item" ELSE inner[k] = Tok(",")
    IN  IF well THEN [raised |-> FALSE, items |-> [k \in 1..n |-> inner[2 * k - 1].v]]
        ELSE [raised |-> TRUE, items |-> <<>>]

\* str.find and str.rfind of one character: an index from 1, or 0 - 1
Find(text, ch) ==
    IF \E k \in 1..Len(text) : text[k] = Tok(ch)
    THEN CHOOSE k \in 1..Len(text) : text[k] = Tok(ch) /\ \A j \in 1..(k - 1) : text[j] # Tok(ch)
    ELSE 0 - 1
RFind(text, ch) ==
    IF \E k \in 1..Len(text) : text[k] = Tok(ch)
    THEN CHOOSE k \in 1..Len(text) : text[k] = Tok(ch) /\ \A j \in (k + 1)..Len(text) : text[j] # Tok(ch)
    ELSE 0 - 1

\* daily_job.py, lines 24-29: extract_json(stdout_text)
extract_json(stdout_text) ==
    LET start == Find(stdout_text, "[")
        end == RFind(stdout_text, "]")
    IN  IF start < 0 \/ end < 0 \/ end <= start
        THEN [raised |-> FALSE, items |-> <<>>]
        ELSE json_loads(SubSeq(stdout_text, start, end))

\* mercadolibre.py, lines 876-986: the options of the scraper's parser
ScraperOptions ==
    { "--country", "--limit", "--json", "--condition", "--estado", "--all-results",
      "--max-pages", "--include-condition", "--include-international", "--min-price",
      "--max-price", "--word", "--min-discount", "--sort-price", "--export-xlsx",
      "--condition-workers", "--skip-condition-in-export", "--cookie", "--cookie-file",
      "--search-url" }

\* daily_job.py, lines 50-94: build_cmd(base_country, cfg, out_json,
\* out_xlsx, cookie); a query without terms raises ValueError
build_cmd(cfg, out_xlsx) ==
    IF Strip(cfg.terms) = <<>>
    THEN [raised |-> TRUE, terms |-> <<>>, options |-> {}]
    ELSE [raised |-> FALSE, terms |-> Strip(cfg.terms),
          options |-> { "--country", "--all-results", "--max-pages", "--min-price",
                        "--max-price", "--min-discount", "--sort-price", "--json" }
                      \cup (IF \E k \in 1..Len(cfg.include_words) : Strip(cfg.include_words[k]) # <<>>
                            THEN {"--include-word"} ELSE {})
                      \cup (IF out_xlsx THEN {"--export-xlsx"} ELSE {})]

\* mercadolibre.py, main, lines 988-1041, and run, lines 844-867: the exit
\* code and the standard output of the scraper started with cmd, when its
\* crawl fails or leaves the items produced; the progress bar goes to the
\* standard error
Scraper(cmd, crawled, produced) ==
    IF ~(cmd.options \subseteq ScraperOptions)
    THEN [returncode |-> 2, stdout |-> <<>>, xlsx |-> FALSE]
    ELSE IF ~crawled
    THEN [returncode |-> 1, stdout |-> <<Line("Tiempo total")>>, xlsx |-> FALSE]
    ELSE IF produced = <<>>
    THEN [returncode |-> 1, stdout |-> <<Line("No se encontraron resultados"), Line("Tiempo total")>>,
          xlsx |-> FALSE]
    ELSE IF "--export-xlsx" \in cmd.options
    THEN [returncode |-> 0, stdout |-> <<Line("Excel generado"), Line("Tiempo total")>>,
          xlsx |-> TRUE]
    ELSE IF "--json" \in cmd.options
    THEN [returncode |-> 0, stdout |-> json_dumps(produced) \o <<Line("Tiempo total")>>,
          xlsx |-> FALSE]
    ELSE [returncode |-> 0,
          stdout |-> <<Line("Resultados para"), Tok("["), Line("CL"), Tok("]"), Line("mostrando")>>
                     \o [k \in 1..Len(produced) |-> Line("item")] \o <<Line("Tiempo total")>>,
          xlsx |-> FALSE]

\* the queries a config may hold: with or without terms and title words,
\* with the spreadsheet export on (the default) or off
QueryConfigs ==
    { [terms |-> t, include_words |-> w, export_xlsx |-> x] :
        t \in { <<>>, <<" ">>, <<"t">> }, w \in { <<>>, << <<"w">> >> }, x \in BOOLEAN }

\* the lists of items a crawl may produce
Produced == { [k \in 1..n |-> k] : n \in 0..MaxJobItems }

\* daily_job.py, lines 165-179: the config file is read
JobInit ==
    /\ CollectOff
    /\ \E qs \in SeqsUpTo(QueryConfigs, MaxQueries) :
          bj = [pc |-> "start", queries |-> qs, q |-> 0, started |-> <<>>, results |-> <<>>,
                merged |-> <<>>, exit_code |-> 0 - 1, error |-> "none"]
    /\ OffBut("bj")

\* daily_job.py, lines 179-190: a config without queries ends the job
JobBegin ==
    /\ bj.pc = "start"
    /\ IF bj.queries = <<>>
       THEN bj' = [bj EXCEPT !.pc = "returned", !.exit_code = 2]
       ELSE bj' = [bj EXCEPT !.pc = "queries", !.q = 1]
    /\ Frame("bj")

\* daily_job.py, lines 191-193 and run_query, lines 97-126: the next query
\* of the loop: its command is built, the scraper is run, and the items read
\* from its standard output are written and kept
run_query ==
    /\ bj.pc = "queries"
    /\ bj.q <= Len(bj.queries)
    /\ LET cfg == bj.queries[bj.q]
           cmd == build_cmd(cfg, cfg.export_xlsx)
       IN  IF cmd.raised
           THEN bj' = [bj EXCEPT !.pc = "raised", !.error = "ValueError"]
           ELSE \E crawled \in BOOLEAN, produced \in Produced :
                   LET proc == Scraper(cmd, crawled, produced)
                       read == extract_json(proc.stdout)
                       run_ == [q |-> bj.q, returncode |-> proc.returncode,
                                produced |-> IF crawled /\ proc.returncode # 2 THEN produced ELSE <<>>]
                   IN  /\ ~crawled => produced = <<>>
                       /\ IF proc.returncode # 0
                          THEN bj' = [bj EXCEPT !.pc = "raised", !.error = "RuntimeError",
                                                !.started = Append(@, run_)]
                          ELSE IF read.raised
                          THEN bj' = [bj EXCEPT !.pc = "raised", !.error = "JSONDecodeError",
                                                !.started = Append(@, run_)]
                          ELSE bj' = [bj EXCEPT !.q = @ + 1, !.started = Append(@, run_),
                                                !.results = Append(@, [q |-> bj.q, items |-> read.items,
                                                                       xlsx |-> proc.xlsx])]
    /\ Frame("bj")

\* daily_job.py, lines 195-207: the merged list and the summary are written
JobFinish ==
    /\ bj.pc = "queries"
    /\ bj.q > Len(bj.queries)
    /\ bj' = [bj EXCEPT !.pc = "returned", !.exit_code = 0,
                        !.merged = [q \in 1..Len(bj.results) |-> bj.results[q].items]]
    /\ Frame("bj")

JobNext == JobBegin \/ run_query \/ JobFinish

JobSpec == JobInit /\ [][JobNext]_vars

\* ----------------------------------------------------------- the supervisor
\* run_dev.py: one run of main; a process is "none" (not started by this
\* run), "running", "exited" or "killed"

\* run_dev.py, line 72: proc.wait(timeout=5)
WaitTimeout == 5

\* run_dev.py, line 66: for proc in (web, api)
Procs == <<"web", "api">>

Running(state) == state = "running"

\* run_dev.py, lines 56-61: the loop ends when the API started by this run
\* or the frontend has exited
ExitSeen_ApiOnly(api, web) == api # "none" /\ ~Running(api)
ExitSeen(api, web) == (api # "none" /\ ~Running(api)) \/ ~Running(web)

\* run_dev.py, lines 22-38: the folder web/ exists or not, port 8000 is
\* already served or not, and node.exe can be started or not
SupervisorInit ==
    /\ CollectOff
    /\ \E w \in BOOLEAN, p \in BOOLEAN, n \in BOOLEAN :
          rd = [pc |-> "start", web_dir |-> w, port_open |-> p, node |-> n,
                proc |-> [x \in {"web", "api"} |-> "none"], signalled |-> {},
                k |-> 0, waited |-> 0, kill_at |-> [x \in {"web", "api"} |-> 0 - 1],
                exit_code |-> 0 - 1, interrupted |-> FALSE]
    /\ OffBut("rd")

\* run_dev.py, lines 23-46: without web/ main returns 1; a running API is
\* reused, else the API is started
StartApi ==
    /\ rd.pc = "start"
    /\ IF ~rd.web_dir
       THEN rd' = [rd EXCEPT !.pc = "returned", !.exit_code = 1]
       ELSE IF rd.port_open
       THEN rd' = [rd EXCEPT !.pc = "launch_web"]
       ELSE rd' = [rd EXCEPT !.pc = "api_started", !.proc["api"] = "running"]
    /\ Frame("rd")

\* run_dev.py, lines 46-49: after 1.5 s the API has exited or not
CheckApi ==
    /\ rd.pc = "api_started"
    /\ IF ~Running(rd.proc["api"])
       THEN rd' = [rd EXCEPT !.pc = "returned", !.exit_code = 1]
       ELSE rd' = [rd EXCEPT !.pc = "launch_web"]
    /\ Frame("rd")

\* run_dev.py, lines 51-52: the frontend is started; Popen raises when
\* node.exe cannot be started, and the exception leaves main
StartWeb ==
    /\ rd.pc = "launch_web"
    /\ IF rd.node
       THEN rd' = [rd EXCEPT !.pc = "monitor", !.proc["web"] = "running"]
       ELSE rd' = [rd EXCEPT !.pc = "raised"]
    /\ Frame("rd")

\* run_dev.py, lines 55-62: one round of the loop that sees an exit
Poll ==
    /\ rd.pc = "monitor"
    /\ ExitSeen(rd.proc["api"], rd.proc["web"])
    /\ rd' = [rd EXCEPT !.pc = "finally", !.k = 1]
    /\ Frame("rd")

\* run_dev.py, lines 63-64: KeyboardInterrupt in the loop
Interrupt ==
    /\ rd.pc = "monitor"
    /\ rd' = [rd EXCEPT !.pc = "finally", !.k = 1, !.interrupted = TRUE]
    /\ Frame("rd")

\* run_dev.py, lines 66-70: the next process of (web, api): one that was
\* not started or is not running is passed over, a running one is signalled
Terminate ==
    /\ rd.pc = "finally"
    /\ rd.k <= Len(Procs)
    /\ LET p == Procs[rd.k]
       IN  IF Running(rd.proc[p])
           THEN rd' = [rd EXCEPT !.pc = "wait", !.waited = 0, !.signalled = @ \cup {p}]
           ELSE rd' = [rd EXCEPT !.k = @ + 1]
    /\ Frame("rd")

\* run_dev.py, lines 71-74: proc.wait(timeout=5) returns when the process
\* has exited; after 5 seconds TimeoutExpired is raised and the process is
\* killed
Wait ==
    /\ rd.pc = "wait"
    /\ LET p == Procs[rd.k]
       IN  IF ~Running(rd.proc[p])
           THEN rd' = [rd EXCEPT !.pc = "finally", !.k = @ + 1]
           ELSE IF rd.waited < WaitTimeout
           THEN rd' = [rd EXCEPT !.waited = @ + 1]
           ELSE rd' = [rd EXCEPT !.pc = "finally", !.k = @ + 1, !.proc[p] = "killed",
                                 !.kill_at[p] = rd.waited]
    /\ Frame("rd")

\* run_dev.py, line 75: return 0
ReturnZero ==
    /\ rd.pc = "finally"
    /\ rd.k > Len(Procs)
    /\ rd' = [rd EXCEPT !.pc = "returned", !.exit_code = 0]
    /\ Frame("rd")

\* a running process exits, by itself or on the signal it was sent
ProcExit(p) ==
    /\ rd.pc # "start"
    /\ Running(rd.proc[p])
    /\ rd' = [rd EXCEPT !.proc[p] = "exited"]
    /\ Frame("rd")

\* the steps of the supervisor itself
SupervisorStep == StartApi \/ CheckApi \/ StartWeb \/ Poll \/ Terminate \/ Wait \/ ReturnZero

SupervisorNext ==
    \/ StartApi \/ CheckApi \/ StartWeb \/ Poll \/ Interrupt \/ Terminate \/ Wait \/ ReturnZero
    \/ \E p \in {"web", "api"} : ProcExit(p)

SupervisorSpec == SupervisorInit /\ [][SupervisorNext]_vars

\* the supervisor is a running program: its next statement is executed; the
\* processes need not exit and nobody need press Ctrl-C
SupervisorLiveSpec == SupervisorSpec /\ WF_vars(SupervisorStep)

\* ------------------------------------------------------------- the discount
\* mercadolibre.py, lines 102-120: extract_discount_percent_from_block; a
\* block is a sequence of tokens: single characters and whole words

MaxFragments == 2    \* price fragments of a block

\* the token at position i, "" past the end
TokAt(s, i) == IF i \in 1..Len(s) THEN s[i] ELSE ""

\* re.IGNORECASE on the words of the patterns
Fold(tok) == IF tok = "OFF" THEN "off" ELSE IF tok = "DCTO" THEN "dcto" ELSE tok

\* \s*: the first position from i on that holds no blank
RECURSIVE SkipSpace(_, _)
SkipSpace(s, i) == IF TokAt(s, i) = " " THEN SkipSpace(s, i + 1) ELSE i

\* (\d{1,3})\s*% at position i: one to three digits, as many as possible,
\* then blanks and the percent sign
PercentAt(s, i) ==
    LET lens == { n \in 1..3 : /\ \A j \in i..(i + n - 1) : IsDigit(TokAt(s, j))
                               /\ TokAt(s, SkipSpace(s, i + n)) = "%" }
        n == CHOOSE m \in lens : \A o \in lens : o <= m
    IN  IF lens = {} THEN [ok |-> FALSE, value |-> 0, after |-> i]
        ELSE [ok |-> TRUE, value |-> ToInt(SubSeq(s, i, i + n - 1)),
              after |-> SkipSpace(s, i + n) + 1]

\* [^>]*>: the position after the first ">" from i on, 0 without one
AfterGt(s, i) ==
    IF \E j \in i..Len(s) : s[j] = ">"
    THEN (CHOOSE j \in i..Len(s) : s[j] = ">" /\ \A o \in i..(j - 1) : s[o] # ">") + 1
    ELSE 0

\* lines 103-109: the five patterns, in the order of the list
ClassOf(k) == IF k = 4 THEN "andes-money-amount-discount" ELSE "poly-price__discount"
MatchAt(k, s, i) ==
    IF k <= 3
    THEN LET m == PercentAt(s, i)
             j == SkipSpace(s, m.after)
         IN  IF m.ok /\ CASE k = 1 -> Fold(TokAt(s, j)) = "off"
                          [] k = 2 -> Fold(TokAt(s, j)) = "dcto"
                          [] OTHER -> /\ Fold(TokAt(s, j)) = "de"
                                      /\ Fold(TokAt(s, SkipSpace(s, j + 1))) = "descuento"
             THEN Int_(m.value) ELSE NoInt
    ELSE LET g == AfterGt(s, i + 1)
             m == PercentAt(s, SkipSpace(s, g))
         IN  IF TokAt(s, i) = ClassOf(k) /\ g > 0 /\ m.ok THEN Int_(m.value) ELSE NoInt

\* line 111: re.search(pattern, block): the match at the leftmost position
\* that has one
Search(k, s) ==
    LET at == { i \in 1..Len(s) : ~MatchAt(k, s, i).none }
    IN  IF at = {} THEN NoInt ELSE MatchAt(k, s, CHOOSE i \in at : \A o \in at : i <= o)

\* line 118: 0 <= value <= 100
InRange_NoCap(value) == 0 <= value
InRange(value) == 0 <= value /\ value <= 100

\* lines 110-120: the patterns from the k-th on
RECURSIVE PatternLoop(_, _)
PatternLoop(block, k) ==
    IF k > 5 THEN NoInt
    ELSE LET match == Search(k, block)
         IN  IF match.none THEN PatternLoop(block, k + 1)
             ELSE IF InRange(match.v) THEN match
             ELSE PatternLoop(block, k + 1)

extract_discount_percent_from_block(block) == PatternLoop(block, 1)

\* the fragments of a block: a number followed by a percent sign and the
\* words of a pattern, or a number inside an element of one of the two
\* classes, with or without such words
Numbers == { <<"1", "0", "0">>, <<"1", "0", "1">>, <<"1", "0", "5", "0">> }
Fragments ==
    { num \o suf :
        num \in Numbers,
        suf \in { <<"%", " ", "off">>, <<" ", "%", "DCTO">>,
                  <<"%", " ", "de", " ", "descuento">> } }
    \cup { pre \o num \o suf :
             pre \in { <<"andes-money-amount-discount", "\"", ">">>,
                       <<"poly-price__discount", "\"", ">", " ">> },
             num \in Numbers,
             suf \in { <<"%", "<">>, <<"%", " ", "OFF">> } }

RECURSIVE Concat(_)
Concat(parts_) == IF parts_ = <<>> THEN <<>> ELSE Head(parts_) \o Concat(Tail(parts_))

Blocks == { Concat(fs) : fs \in SeqsUpTo(Fragments, MaxFragments) }

DiscountInit ==
    /\ CollectOff
    /\ \E b \in Blocks : dp = [pc |-> "call", block |-> b, result |-> NoInt]
    /\ OffBut("dp")

\* one call of extract_discount_percent_from_block
ExtractDiscount ==
    /\ dp.pc = "call"
    /\ dp' = [dp EXCEPT !.pc = "done", !.result = extract_discount_percent_from_block(dp.block)]
    /\ Frame("dp")

DiscountSpec == DiscountInit /\ [][ExtractDiscount]_vars

\* ------------------------------------------------------------- the claims
NoRepeatedLink(seq) ==
    \A i \in 1..Len(seq), j \in 1..Len(seq) : i # j => seq[i].link # seq[j].link

DensePositions(seq) == \A k \in 1..Len(seq) : seq[k].position = k

EmptyJar == [bmstate |-> NoCookie, bmc |-> NoSolution]

\* C1: a crawl whose pages stop adding items halts: once 5 accepted pages in
\* a row (empty or holding only links already collected) have added no item,
\* the crawl has returned, whatever the page cap and the addressing mode.
C1_HaltsAfterFiveZeroNewPages ==
    zero_run >= MAX_EMPTY_PAGES => (pc = "done" /\ status = "returned")

\* C2: a page whose items are all duplicates counts on the same streak as a
\* page without items: the streak is the number of accepted pages in a row
\* that added no item, empty and duplicate-only pages in any mix.
C2_DuplicateOnlyPagesShareTheStreak == empty_streak = zero_run

\* C3: the collected items and the returned items never hold a link twice,
\* the k-th of them has position k, and the seen links are never more than
\* the collected items.
C3_DedupAndDensePositions ==
    /\ NoRepeatedLink(collected) /\ DensePositions(collected)
    /\ NoRepeatedLink(result) /\ DensePositions(result)
    /\ Cardinality(seen_links) <= Len(collected)

\* a link collected on the first page came again on the second page, which
\* added nothing, and the crawl returned it once
C3_Witness ==
    /\ status = "returned" /\ reason = "no_next" /\ page_count = 2
    /\ html.links = <<1>> /\ zero_run = 1
    /\ Len(result) = 1 /\ result[1].link = 1

\* C4: with fetch-all off the crawl holds and returns at most limit items and
\* has returned, with exactly the collected items, as soon as the limit-th
\* item is collected: the rest of that page is dropped, no page follows.
C4_ReturnsAtTheLimit ==
    ~fetch_all =>
        /\ Len(collected) <= limit
        /\ Len(result) <= limit
        /\ Len(collected) = limit =>
              (pc = "done" /\ status = "returned" /\ reason = "limit" /\ result = collected)

\* the limit was reached by the first of two new items of a page
C4_Witness ==
    /\ ~fetch_all /\ status = "returned" /\ reason = "limit"
    /\ Len(html.links) = 2 /\ html.links[1] # html.links[2]
    /\ html.links[2] \notin seen_links
    /\ Len(result) = limit

\* C5: with max_pages > 0 at most max_pages pages are resolved, whatever the
\* pages are, and the crawl that ends at the cap returns the collected items
\* without error; the cap never ends a crawl with max_pages <= 0.
C5_PageCap ==
    /\ max_pages > 0 => page_count <= max_pages
    /\ reason = "page_cap" =>
          /\ max_pages > 0 /\ page_count = max_pages
          /\ status = "returned" /\ result = collected

\* the cap ended a crawl whose pages were a page with items, an empty page
\* and a shell page
C5_Witness ==
    /\ reason = "page_cap" /\ page_count = 3
    /\ collected # <<>> /\ zero_run = 1 /\ shell_run = 1

\* C6: under offset addressing the crawl raises the shell-page error exactly
\* when 3 pages in a row stayed shell pages, and then returns no item.
C6_ThreeShellPagesAreFatal ==
    search_url = None =>
        /\ (status = "raised" /\ reason = "shell_pages") <=> shell_run >= 3
        /\ shell_run >= 3 => result = <<>>
        /\ shell_run <= 3

\* the error was raised by a crawl that had collected items
C6_Witness ==
    /\ search_url = None /\ status = "raised" /\ reason = "shell_pages"
    /\ collected # <<>>

\* C7: a 404 on any fetch attempt of a page ends the crawl at once: it has
\* returned the collected items without error and made no fallback fetch.
C7_NotFoundEndsTheCrawl ==
    (call.primary /\ call.kind = "HTTPError" /\ call.code = 404) =>
        /\ pc = "done" /\ status = "returned" /\ reason = "404"
        /\ result = collected
        /\ fallback_tried = 0

\* the 404 came on the second attempt of a page, after items were collected
C7_Witness ==
    /\ reason = "404" /\ attempts = 2 /\ collected # <<>>
    /\ call.kind = "HTTPError" /\ call.code = 404

\* C8: a page is attempted at most 3 times; a retry follows only an attempt
\* that failed with a non-404 HTTP error and starts from an empty cookie jar;
\* after such a failure the crawl either retries or, on the third, raises
\* the error and returns no item.
C8_HttpErrorRetries ==
    /\ attempts <= 3
    /\ (pc = "attempt" /\ attempts >= 1) =>
          (jar = EmptyJar /\ call.kind = "HTTPError" /\ call.code # 404)
    /\ (status = "raised" /\ reason = "HTTPError") => (attempts = 3 /\ result = <<>>)
    /\ (call.primary /\ call.kind = "HTTPError" /\ call.code # 404) =>
          \/ pc = "attempt" /\ attempts < 3
          \/ status = "raised" /\ reason = "HTTPError" /\ attempts = 3

\* the third attempt failed too, in a crawl that had collected items
C8_Witness ==
    /\ status = "raised" /\ reason = "HTTPError" /\ attempts = 3
    /\ collected # <<>>

\* C9: a page fetch that times out is retried within the 3 attempts of the
\* page: a timeout is fatal only on the third attempt.
C9_TimeoutIsRetried ==
    (status = "raised" /\ reason = "timeout" /\ call.primary) => attempts = 3

GetsOf(log) == Cardinality({i \in 1..Len(log) : log[i].op = "GET"})

\* C10: one call of the page fetcher makes a single GET when the answer has
\* no challenge marker; on a challenge it calls the solver once and fetches
\* the same url once more if the solver succeeded, and not at all if it failed.
C10_FetcherGets ==
    call.log # <<>> =>
        /\ GetsOf(call.log) <= 2
        /\ ~call.challenged => call.log = <<Get(call.url)>>
        /\ (call.challenged /\ call.solvable) =>
              call.log = <<Get(call.url), Solve, Get(call.url)>>
        /\ (call.challenged /\ ~call.solvable) =>
              (call.log = <<Get(call.url), Solve>> /\ call.kind = "unsolved")
        /\ call.kind = "html" => ~html.marker

\* a challenge was solved and the url fetched again
C10_Witness == Len(call.log) = 3 /\ call.challenged /\ call.kind = "html"

\* the nonces below the bound that solve the challenge cookie c
Qualifying(c) ==
    { n \in 0..(NonceBound - 1) : LeadingZeros(c.token, n) >= c.difficulty }

WellFormed(c) == c # NoCookie /\ c.nparts >= 2 /\ c.isint

Smallest(S) == CHOOSE n \in S : \A m \in S : n <= m

\* C11: the solver tries the nonces 0, 1, 2, ... in this order and never past
\* the bound; it injects the solution cookie for the smallest nonce whose
\* digest starts with d zeros; when no nonce under the bound qualifies, or
\* the challenge cookie is absent or malformed, it reports failure and the
\* jar is the jar it was given.
C11_SolverFindsTheSmallestNonce ==
    LET c == sv.jar0.bmstate
    IN  /\ sv.pc \in {"search", "inject"} =>
            /\ WellFormed(c)
            /\ sv.nonce <= NonceBound
            /\ \A n \in Qualifying(c) : n >= sv.nonce
        /\ sv.pc = "inject" => sv.nonce \in Qualifying(c)
        /\ sv.pc \in {"begin", "search", "inject"} => sv.cookie_jar = sv.jar0
        /\ sv.pc = "done" =>
            /\ sv.ok <=> (WellFormed(c) /\ Qualifying(c) # {})
            /\ sv.ok => sv.cookie_jar =
                          [sv.jar0 EXCEPT !.bmc = [token |-> c.token,
                                                   nonce |-> Smallest(Qualifying(c))]]
            /\ ~sv.ok => sv.cookie_jar = sv.jar0
            /\ [ok |-> sv.ok, jar |-> sv.cookie_jar] = _solve_bm_challenge(sv.jar0)

\* a solved challenge whose first nonces did not qualify, in a jar that held
\* an older solution
C11_Witness ==
    /\ sv.pc = "done"
    /\ sv.ok
    /\ sv.nonce >= 2
    /\ sv.jar0.bmc = StaleSolution
    /\ sv.cookie_jar.bmc.nonce = sv.nonce

\* C12: a failed fetch or parse for one item leaves that item without a
\* condition and does not abort the pass: no exception leaves the pass, the
\* pass can always go on until it ends, and at its end every pending item
\* was fetched once and carries the condition its page gave, if any.
C12_OneFailureDoesNotAbortTheBatch ==
    /\ en.pc # "raised"
    /\ en.pc \in {"start", "pool"} => ENABLED EnrichNext
    /\ en.pc = "done" =>
         \A k \in 1..Len(en.items0) :
            en.items0[k].condition = NoCondition =>
               /\ en.fetches[k] = 1
               /\ en.done = Cardinality({ j \in 1..Len(en.items0) :
                                            en.items0[j].condition = NoCondition })
               /\ en.res[k].failed => en.items[k].condition = NoCondition
               /\ ~en.res[k].failed => en.items[k].condition = en.res[k].condition

\* a finished pass in which one fetch failed and another item got its condition
C12_Witness ==
    /\ en.pc = "done"
    /\ \E k, j \in 1..Len(en.items0) :
          /\ k # j
          /\ en.fetches[k] = 1 /\ en.res[k].failed
          /\ en.items[k].condition = NoCondition
          /\ en.items0[j].condition = NoCondition /\ en.items[j].condition = "new"

\* C13: the pass fetches nothing for an item that already carries a
\* condition and keeps that condition; it changes no other field of any
\* item, and the items stay the same ones in the same order.
C13_EnrichmentFrame ==
    /\ Len(en.items) = Len(en.items0)
    /\ \A k \in 1..Len(en.items0) :
          /\ en.items[k].link = en.items0[k].link
          /\ en.items[k].position = en.items0[k].position
          /\ en.items0[k].condition # NoCondition =>
                /\ en.fetches[k] = 0
                /\ en.items[k].condition = en.items0[k].condition

\* a finished pass over an item that carried a condition and one that got one
C13_Witness ==
    /\ en.pc = "done"
    /\ \E k, j \in 1..Len(en.items0) :
          /\ en.items0[k].condition = "used" /\ en.items[k].condition = "used"
          /\ en.items0[j].condition = NoCondition /\ en.items[j].condition = "reconditioned"

\* the number that a price text shows, read off its digits from the left
RECURSIVE Numeral(_, _)
Numeral(text, acc) ==
    IF text = <<>> THEN acc
    ELSE Numeral(Tail(text), IF IsDigit(Head(text)) THEN 10 * acc + DigitValue(Head(text))
                             ELSE acc)

HasNumeral(price) == ~price.none /\ \E k \in 1..Len(price.text) : IsDigit(price.text[k])

\* the active predicates of the call held in fl, on one item
Wanted(item) ==
    /\ fl.min_price > 0 => (HasNumeral(item.price) /\ Numeral(item.price.text, 0) >= fl.min_price)
    /\ fl.max_price > 0 => (HasNumeral(item.price) /\ Numeral(item.price.text, 0) <= fl.max_price)
    /\ Lower(Strip(fl.word)) # <<>> => Contains(Lower(item.title), Lower(Strip(fl.word)))
    /\ fl.min_discount > 0 =>
          (~item.discount_percent.none /\ item.discount_percent.v >= fl.min_discount)

\* C14: apply_filters returns exactly the input items that pass every active
\* predicate (price bounds on the parsed price, the required word in the
\* lowercase title, the minimum discount), in input order; an item without
\* a parseable price is out whenever a price bound is set.
C14_FiltersKeepExactlyThePassingItems ==
    fl.pc = "done" =>
       /\ \A j \in 1..Len(fl.out) : fl.out[j] = fl.items[fl.out[j].position]
       /\ \A j \in 1..(Len(fl.out) - 1) : fl.out[j].position < fl.out[j + 1].position
       /\ \A k \in 1..Len(fl.items) :
             Wanted(fl.items[k]) <=> \E j \in 1..Len(fl.out) : fl.out[j].position = k
       /\ \A j \in 1..Len(fl.out) :
             (fl.min_price > 0 \/ fl.max_price > 0) => HasNumeral(fl.out[j].price)

\* a call with a price bound, a word and a discount bound that keeps the
\* second item and drops the first
C14_Witness ==
    /\ fl.pc = "done"
    /\ fl.min_price > 0 /\ fl.max_price > 0 /\ fl.min_discount > 0
    /\ Strip(fl.word) # <<>>
    /\ Len(fl.items) = 2
    /\ Len(fl.out) = 1
    /\ fl.out[1].position = 2

\* C15: filtering with configured include and exclude words gives the items
\* for the count: an item whose lowercase title contains an exclude word is
\* removed, and an item is kept only if its title contains the include words.
C15_ExcludeAndIncludeWordsFilter ==
    (fl.pc = "done" /\ (fl.include_words # <<>> \/ fl.exclude_words # <<>>)) =>
       /\ fl.status = "returned"
       /\ \A j \in 1..Len(fl.out) :
             /\ \A w \in 1..Len(fl.include_words) :
                   Contains(Lower(fl.out[j].title), Lower(fl.include_words[w]))
             /\ \A w \in 1..Len(fl.exclude_words) :
                   ~Contains(Lower(fl.out[j].title), Lower(fl.exclude_words[w]))

Priced(item) == HasNumeral(item.price)
PriceOf(item) == Numeral(item.price.text, 0)

\* C16: sort_items_by_price returns a permutation of its input with every
\* priced item before every unpriced one, priced items in non-decreasing
\* numeric price, items of equal price and unpriced items in input order,
\* and position renumbered 1..N in the resulting order.
C16_SortByPrice ==
    so.pc = "done" =>
       /\ Len(so.out) = Len(so.items)
       /\ \A k \in 1..Len(so.items) : \E j \in 1..Len(so.out) : so.out[j].link = k
       /\ \A j \in 1..Len(so.out) :
             /\ so.out[j].price = so.items[so.out[j].link].price
             /\ so.out[j].position = j
       /\ \A i, j \in 1..Len(so.out) :
             i < j =>
                /\ Priced(so.out[j]) => Priced(so.out[i])
                /\ Priced(so.out[j]) => PriceOf(so.out[i]) <= PriceOf(so.out[j])
                /\ (Priced(so.out[j]) /\ PriceOf(so.out[i]) = PriceOf(so.out[j])) =>
                      so.out[i].link < so.out[j].link
                /\ ~Priced(so.out[i]) => so.out[i].link < so.out[j].link

\* a sorted list in which an unpriced item and the later of two items of
\* equal price came first in the input
C16_Witness ==
    /\ so.pc = "done"
    /\ Len(so.out) = 3
    /\ ~Priced(so.items[1])
    /\ Priced(so.items[2]) /\ Priced(so.items[3])
    /\ so.items[2].price # so.items[3].price
    /\ PriceOf(so.items[2]) = PriceOf(so.items[3])
    /\ so.out[1].link = 2 /\ so.out[2].link = 3 /\ so.out[3].link = 1

\* C17: a run with fetch-all off, limit L >= 1, minimum discount D > 0 and
\* sort by price on, with or without condition filter, ends with at most L
\* items, each with a discount of at least D, and with non-decreasing parsed
\* prices over the priced items.
C17_RunEndToEnd ==
    (/\ cl.pc = "exit"
     /\ Len(cl.log) = 2
     /\ ~cl.args.all_results
     /\ cl.args.min_discount > 0
     /\ cl.args.sort_price) =>
       /\ Len(cl.items) <= cl.args.limit
       /\ \A k \in 1..Len(cl.items) :
             ~cl.items[k].discount_percent.none =>
                cl.items[k].discount_percent.v >= cl.args.min_discount
       /\ \A i, j \in 1..Len(cl.items) :
             (i < j /\ Priced(cl.items[i]) /\ Priced(cl.items[j])) =>
                PriceOf(cl.items[i]) <= PriceOf(cl.items[j])

\* a run with a condition filter whose crawl returned more items than the
\* limit, in descending price, and that printed the cheapest first
C17_Witness ==
    /\ cl.pc = "exit"
    /\ cl.exit_code = 0
    /\ ~cl.args.all_results /\ cl.args.min_discount > 0 /\ cl.args.sort_price
    /\ cl.args.condition = "used"
    /\ Len(cl.collected) > cl.args.limit
    /\ Len(cl.items) = cl.args.limit
    /\ PriceOf(cl.collected[1]) > PriceOf(cl.collected[2])
    /\ Priced(cl.items[1])

\* C20: main rejects an empty query and a limit below 1 with a non-zero
\* exit code, and has then neither configured the cookies nor started the
\* crawl.
C20_MalformedInputIsRejectedFirst ==
    (Strip(cl.args.query) = <<>> \/ cl.args.limit < 1) =>
       /\ cl.log = <<>>
       /\ cl.pc \in {"validate", "exit"}
       /\ cl.pc = "exit" => cl.exit_code = 2

\* a run rejected for its limit alone
C20_Witness ==
    /\ cl.pc = "exit"
    /\ cl.exit_code = 2
    /\ Strip(cl.args.query) # <<>>
    /\ cl.args.limit = 0

\* C18: for N items the package has exactly five parts and the worksheet
\* exactly N + 1 rows, numbered 1..N+1: the header row, then one row for
\* each item in input order; every row has exactly 6 cells, referenced A..F
\* with the number of its row.
C18_WorkbookShape ==
    /\ \A r \in 1..Len(xl.sheet_rows) :
          /\ xl.sheet_rows[r].r = r
          /\ Len(xl.sheet_rows[r].cells) = 6
          /\ \A c \in 1..6 :
                /\ xl.sheet_rows[r].cells[c].col = <<<<"A", "B", "C", "D", "E", "F">>[c]>>
                /\ xl.sheet_rows[r].cells[c].row = r
          /\ r = 1 => \A c \in 1..6 : xl.sheet_rows[r].cells[c].v = headers[c]
          /\ r > 1 => /\ xl.sheet_rows[r].cells[1].v = StrOfInt(r - 1)
                      /\ xl.sheet_rows[r].cells[6].v = xl.items[r - 1].link
    /\ xl.pc = "done" =>
          /\ Len(xl.sheet_rows) = Len(xl.items) + 1
          /\ Len(xl.parts) = 5
          /\ Cardinality({ xl.parts[p] : p \in 1..Len(xl.parts) }) = 5

\* a finished workbook of two items
C18_Witness ==
    /\ xl.pc = "done"
    /\ Len(xl.items) = 2
    /\ Len(xl.sheet_rows) = 3
    /\ xl.sheet_rows[3].cells[6].col = <<"F">>
    /\ xl.sheet_rows[3].cells[2].v # xl.items[2].title

\* the place of a kind of token in the fixed order
TokenRank(kind) ==
    CHOOSE r \in 1..6 :
       <<"sort", "price", "discount", "condition", "noindex", "shipping">>[r] = kind

CountOf(kind) == Cardinality({ k \in 1..Len(tk.tokens) : tk.tokens[k].kind = kind })

\* C19: the tokens come in the order sort, price range, discount range,
\* condition, no-index, local shipping; the no-index token is there exactly
\* once, the sort token exactly once iff sort by price is asked, the
\* condition token iff the filter is one of the three known conditions, and
\* the local-shipping token iff international results are excluded.
C19_TokenOrder ==
    tk.pc = "done" =>
       /\ \A i, j \in 1..Len(tk.tokens) :
             i < j => TokenRank(tk.tokens[i].kind) < TokenRank(tk.tokens[j].kind)
       /\ CountOf("noindex") = 1
       /\ CountOf("sort") = IF tk.sort_price THEN 1 ELSE 0
       /\ CountOf("condition") =
             IF tk.condition_filter \in {"new", "used", "reconditioned"} THEN 1 ELSE 0
       /\ CountOf("shipping") = IF tk.exclude_international THEN 1 ELSE 0

\* a call that emits all six tokens, for reconditioned items
C19_Witness ==
    /\ tk.pc = "done"
    /\ Len(tk.tokens) = 6
    /\ tk.condition_filter = "reconditioned"
    /\ tk.tokens[4].name = "ITEM*CONDITION_2234833"

\* C21: the three anti-bot outcomes end the whole crawl with three different
\* errors: a challenge that could not be solved, a challenge still there
\* after the one re-fetch, and 3 shell pages in a row; each time the error is
\* raised to the caller and none of the collected items is returned.
C21_AntiBotOutcomesAreFatal ==
    /\ call.kind = "unsolved" => (status = "raised" /\ reason = "unsolved")
    /\ call.kind = "blocked" => (status = "raised" /\ reason = "blocked")
    /\ shell_page_streak >= 3 => (status = "raised" /\ reason = "shell_pages")
    /\ reason = "unsolved" =>
          (call.challenged /\ ~call.solvable /\ GetsOf(call.log) = 1)
    /\ reason = "blocked" =>
          (call.challenged /\ call.solvable /\ GetsOf(call.log) = 2)
    /\ reason = "shell_pages" => shell_run = 3
    /\ reason \in {"unsolved", "blocked", "shell_pages"} =>
          (pc = "done" /\ status = "raised" /\ result = <<>>)

\* a crawl that had collected items was blocked after the re-fetch of a
\* fallback fetch
C21_Witness ==
    /\ status = "raised" /\ reason = "blocked"
    /\ ~call.primary
    /\ collected # <<>>
    /\ result = <<>>

\* C22: the addressing mode never changes during a crawl. A crawl started
\* with a url fetches that url first and then only next links taken from the
\* pages it fetched, never a url built from an offset or a category url; a
\* crawl started without one fetches only urls built from the offset and
\* their category fallbacks, and never holds a next link.
C22_AddressingModeIsFixed ==
    /\ search_url # None =>
          /\ call.kind # "none" => call.url.kind = "link"
          /\ pc = "attempt" => (current_url.kind = "link" /\ current_url = next_url)
          /\ (pc = "attempt" /\ page_count = 1) => current_url = search_url
          /\ (pc = "loop" /\ page_count >= 1) => (next_url # None /\ next_url = html.next)
          /\ pc # "fallback"
          /\ fallback_tried = 0
          /\ current_start = 1
    /\ search_url = None =>
          /\ next_url = None
          /\ call.kind # "none" => call.url.kind \in {"start", "category"}
          /\ pc \in {"attempt", "fallback"} => current_url.kind = "start"

\* a crawl started with a url is at its third page, after a page with items
\* and a page without
C22_Witness ==
    /\ search_url # None
    /\ pc = "attempt" /\ page_count = 3
    /\ current_url.kind = "link"
    /\ collected # <<>> /\ empty_streak = 1


\* C23: the crawl stops for the empty-page reason exactly when 5 accepted
\* results pages in a row had zero extracted items, never earlier, and a
\* page that contributes a new item puts the streak back to 0.  empty_run
\* counts the accepted results pages in a row with zero extracted items.
C23_StopsExactlyAtFiveEmptyPages ==
    /\ reason = "empty_streak" => empty_run >= MAX_EMPTY_PAGES
    /\ empty_run >= MAX_EMPTY_PAGES => (pc = "done" /\ reason = "empty_streak")
    /\ (page_count >= 1 /\ zero_run = 0) => empty_streak = 0


\* C24: a step that handles a shell page and leaves the shell streak below 3
\* adds one page size to the offset and goes on with the loop when the crawl
\* addresses pages by offset, and ends the crawl with the items collected so
\* far, without error, when it follows continuation links.
C24_ShellPageBelowThree ==
    [][(shell_page_streak' = shell_page_streak + 1 /\ shell_page_streak' < MaxShellPages)
        => /\ collected' = collected /\ empty_streak' = empty_streak
           /\ next_url' = next_url
           /\ next_url = None =>
                /\ current_start' = current_start + DEFAULT_PAGE_SIZE
                /\ pc' = "loop" /\ status' = "running"
           /\ next_url # None =>
                /\ pc' = "done" /\ status' = "returned" /\ reason' = "shell_stop"
                /\ result' = collected
                /\ current_start' = current_start]_vars
C24_Witness ==
    /\ search_url = None /\ pc = "loop" /\ status = "running"
    /\ shell_page_streak = 2 /\ shell_run = 2
    /\ current_start = 1 + 3 * DEFAULT_PAGE_SIZE /\ collected # <<>>


\* C25: a fetch of the category url happens only in a crawl by offset whose
\* primary page is not a results page, and at most once for a page; the page
\* handled afterwards is the fetched one only if that is a results page, and
\* an HTTP error of the fetch does not end the crawl: the primary page is
\* then handled as a shell page.
C25_FallbackFetch ==
    [][/\ fallback_tried' <= 1
       /\ fallback_tried' = fallback_tried + 1 =>
            /\ pc = "fallback" /\ fallback_tried = 0
            /\ search_url = None /\ next_url = None
            /\ current_url = build_search_url_with_start(current_start)
            /\ ~looks_like_results_page(html)
            /\ ~call'.primary
            /\ call'.url = build_search_url_with_category(current_start)
            /\ call'.kind = "HTTPError" =>
                 /\ html' = html
                 /\ shell_page_streak' = shell_page_streak + 1
                 /\ IF shell_page_streak' >= MaxShellPages
                    THEN status' = "raised" /\ reason' = "shell_pages"
                    ELSE status' = "running" /\ pc' = "loop"
                         /\ current_start' = current_start + DEFAULT_PAGE_SIZE
            /\ call'.kind = "html" =>
                 /\ html' # html => (looks_like_results_page(html') /\ shell_page_streak' = 0)
                 /\ html' = html => shell_page_streak' = shell_page_streak + 1
       /\ pc' = "fallback" => /\ call'.primary /\ call'.kind = "html"
                              /\ ~looks_like_results_page(html')]_vars
C25_Witness ==
    /\ ~call.primary /\ call.kind = "HTTPError" /\ fallback_tried = 1
    /\ status = "running" /\ pc = "loop" /\ shell_page_streak = 2
    /\ collected # <<>>


C27_OffsetArithmetic ==
    search_url = None =>
        /\ pc = "loop" => current_start = 1 + 48 * page_count
        /\ pc \in {"attempt", "fallback"} =>
             /\ current_start = 1 + 48 * (page_count - 1)
             /\ current_url = [kind |-> "start", n |-> 1 + 48 * (page_count - 1)]
        /\ call.kind # "none" =>
             /\ call.url.n = 1 + 48 * (page_count - 1)
             /\ call.url.kind = IF call.primary THEN "start" ELSE "category"
C27_Witness ==
    /\ search_url = None /\ pc = "attempt" /\ attempts = 2 /\ page_count = 4
    /\ current_url = [kind |-> "start", n |-> 145]
    /\ empty_streak = 1 /\ shell_page_streak = 1 /\ collected # <<>>


\* C28: the enrichment pass starts exactly one fetch for each pending item
\* and none for the others; an item's condition is written at most once, and
\* only with what its own task returned, in whatever order the tasks end; the
\* progress counter is the number of tasks whose result has been taken, one
\* more for each, and ends as the number of pending items.
C28_OneTaskPerPendingItem ==
    en.pc # "off" =>
        LET n == Len(en.items0)
            pending == { k \in 1..n : en.items0[k].condition = NoCondition }
        IN  /\ Len(en.items) = n
            /\ \A k \in 1..n :
                 /\ en.fetches[k] <= 1 /\ en.writes[k] <= 1
                 /\ k \notin pending => (en.fetches[k] = 0 /\ en.writes[k] = 0)
                 /\ en.fetches[k] = 1 <=> k \in en.running \cup en.completed \cup en.collected
                 /\ en.writes[k] = 1 => (k \in en.collected /\ en.res[k].condition # NoCondition)
                 /\ en.items[k].condition =
                      IF en.writes[k] = 1 THEN en.res[k].condition
                      ELSE en.items0[k].condition
                 /\ en.items[k].link = en.items0[k].link
            /\ en.collected \subseteq pending
            /\ en.done = Cardinality(en.collected)
            /\ en.pc # "raised"
            /\ en.pc = "done" =>
                 /\ en.done = Cardinality(pending)
                 /\ \A k \in pending : en.fetches[k] = 1
C28_Witness ==
    /\ en.pc = "pool" /\ Len(en.items0) = 3
    /\ 1 \in en.running /\ 3 \in en.queued
    /\ en.collected = {2} /\ en.done = 1
    /\ en.writes[2] = 1 /\ en.items[2].condition = "reconditioned"


\* C29: every request of the enrichment pass goes through a cookie jar made
\* for it, which no other request uses and which holds no cookie of the
\* crawl, and carries no Cookie header.
C29_DetailFetchesAreUnauthenticated ==
    rq.pc # "off" =>
        \A k \in 1..Len(rq.sent) :
            rq.sent[k].by = "enricher" =>
                /\ \A j \in 1..Len(rq.sent) : j # k => rq.sent[j].jar_id # rq.sent[k].jar_id
                /\ rq.sent[k].jar_cookies = {}
                /\ rq.sent[k].Cookie = Absent


\* the Cookie header that the payload of count request i asks for, on the
\* first-page request and on the requests of its crawl
OwnCookie(i, path) ==
    IF path = "crawl"
    THEN _read_html("crawl", i, {},
                    configure_cookie_header(Absent, sr.inv[i].payload.cookie_file).header).Cookie
    ELSE IF _try_read_cookie_header(sr.inv[i].payload.cookie_file) # <<>>
    THEN Text(_try_read_cookie_header(sr.inv[i].payload.cookie_file))
    ELSE Absent

\* C30: count requests served at the same time share no cookie state: the
\* header that the crawl of a request is about to send is the one configured
\* from that request's own payload, and every request sent carries the header
\* of the payload it was sent for.
C30_CookieStateIsPerCrawl ==
    sr.pc # "off" =>
        /\ \A i \in 1..MaxInvocations :
             sr.inv[i].pc = "call" =>
                sr.REQUEST_COOKIE_HEADER =
                    configure_cookie_header(Absent, sr.inv[i].payload.cookie_file).header
        /\ \A r \in sr.sent : r.Cookie = OwnCookie(r.by, r.path)


\* C31: the items a run ends with, which are the ones it prints or exports,
\* have the positions 1..N in output order, whatever the filters, the
\* condition filter and the sort removed or moved.
C31_OutputPositionsAreDense ==
    cl.pc = "exit" =>
       /\ DensePositions(cl.items)
       /\ cl.exit_code = 0 => cl.items # <<>>
       /\ \A k \in 1..Len(cl.items) :
             \E j \in 1..Len(cl.collected) : cl.collected[j].link = cl.items[k].link

\* a run without sort whose minimum discount removed the first item of the
\* crawl: the second item of the crawl is printed as number 1
C31_Witness ==
    /\ cl.pc = "exit" /\ cl.exit_code = 0
    /\ ~cl.args.sort_price /\ cl.args.min_discount > 0
    /\ Len(cl.collected) = 2 /\ Len(cl.items) = 1
    /\ cl.collected[2].position = 2
    /\ cl.items[1].link = 2 /\ cl.items[1].position = 1


\* C32: a count request is answered from the first-page total only when it
\* has no title filter and the total is neither 9999 nor 10000; a request
\* whose first-page total is not usable, for a title filter, a missing or
\* capped total, a challenge page or an error of the first-page request, is
\* answered with the count of a crawl.
C32_CountFallsBackToCrawl ==
    sr.pc # "off" =>
        \A i \in 1..MaxInvocations :
            /\ (sr.inv[i].count_source = "first_page_total" /\ ~sr.inv[i].cache_hit) =>
                 /\ ~HasTitleFilter(sr.inv[i].payload)
                 /\ ~sr.inv[i].count.none
                 /\ sr.inv[i].count.v \notin {9999, 10000}
            /\ (sr.inv[i].pc = "done"
                  /\ sr.inv[i].fast \in {"filter", "http_error", "challenge", "no_total", "sentinel"}) =>
                 /\ sr.inv[i].status_code = 200
                 /\ sr.inv[i].count_source = "crawl"
                 /\ ~sr.inv[i].count.none


\* two payloads that ask for the same count: equal after the normalization
\* that the computation itself applies to them
SameRequest(p, q) ==
    /\ Strip(p.query) = Strip(q.query)
    /\ Strip(p.word) = Strip(q.word)
    /\ (IF p.min_price > 0 THEN p.min_price ELSE 0) = (IF q.min_price > 0 THEN q.min_price ELSE 0)
    /\ p.cookie_file = q.cookie_file

C34_CacheNeverServesStaleEntries ==
    [][/\ \A i \in 1..MaxInvocations :
           /\ sr'.inv[i].cache_hit => (sr'.inv[i].age >= 0 /\ sr'.inv[i].age <= 300)
           /\ (sr.inv[i].pc = "start" /\ sr'.inv[i].pc # "start") =>
                 LET old == { e \in sr._COUNT_CACHE : SameRequest(e.payload, sr.inv[i].payload) }
                 IN  /\ (\E e \in old : sr.now - e.stored_at > 300) =>
                          /\ sr'.inv[i].pc = "fast" /\ ~sr'.inv[i].cache_hit
                          /\ sr'._COUNT_CACHE = sr._COUNT_CACHE \ old
                     /\ (old # {} /\ \A e \in old : sr.now - e.stored_at <= 300) =>
                          /\ sr'.inv[i].cache_hit /\ sr'.inv[i].served \in old
                          /\ sr'._COUNT_CACHE = sr._COUNT_CACHE
           /\ (sr'.inv[i].status_code = 400 /\ sr.inv[i].status_code # 400) =>
                 sr'._COUNT_CACHE = sr._COUNT_CACHE
           /\ (sr.inv[i].pc = "fast" /\ sr'.inv[i].status_code = 200) =>
                 \E e \in sr'._COUNT_CACHE :
                    /\ e.payload = sr.inv[i].payload /\ e.count = sr'.inv[i].count
                    /\ e.stored_at = sr.now
       /\ \A e \in sr'._COUNT_CACHE : ~e.count.none /\ e.stored_at <= sr'.now]_vars

\* a request found the entry of its search expired, removed it, computed the
\* count again and stored it
C34_Witness ==
    /\ sr.pc = "serving" /\ sr.now = 3 * TickSeconds
    /\ \E i, j \in 1..MaxInvocations :
          /\ i # j
          /\ sr.inv[i].pc = "done" /\ sr.inv[i].status_code = 200 /\ ~sr.inv[i].cache_hit
          /\ sr.inv[j].evicted /\ sr.inv[j].pc = "done" /\ sr.inv[j].status_code = 200
          /\ SameRequest(sr.inv[i].payload, sr.inv[j].payload)
          /\ \E e \in sr._COUNT_CACHE :
                e.payload = sr.inv[j].payload /\ e.stored_at = 3 * TickSeconds

\* C35: a batch configuration in which any query lacks its search terms is
\* rejected before the crawler is started for any query: while the config
\* holds a query without terms, no scraper command has been run.
C35_MalformedConfigStartsNoCrawl ==
    (\E k \in 1..Len(bj.queries) : Strip(bj.queries[k].terms) = <<>>) => bj.started = <<>>

\* C36: for every query, with the spreadsheet export on or off, the items
\* the job writes as the query's result and merges into the digest are the
\* items the crawler produced for that query.
C36_PersistedItemsAreCrawlerItems ==
    /\ \A k \in 1..Len(bj.results) : bj.results[k].items = bj.started[k].produced
    /\ \A k \in 1..Len(bj.merged) : bj.merged[k] = bj.started[k].produced

\* C37: once both processes run, whenever the API started by the supervisor
\* or the frontend exits, the supervisor eventually returns with no process
\* it started still running; a process is killed only after it was sent the
\* termination signal and 5 seconds passed without its exit.
C37_ExitLeadsToShutdown ==
    /\ (rd.pc = "monitor" /\ (rd.proc["api"] = "exited" \/ rd.proc["web"] = "exited"))
           ~> (rd.pc = "returned" /\ rd.exit_code = 0
               /\ \A p \in {"web", "api"} : rd.proc[p] # "running")
    /\ [](\A p \in {"web", "api"} :
            rd.proc[p] = "killed" => p \in rd.signalled /\ rd.kill_at[p] = 5)

\* C37 witness: the API exited while the frontend ran on; the frontend was
\* signalled, did not exit within 5 seconds and was killed, and main returned
C37_Witness ==
    /\ rd.pc = "returned" /\ rd.exit_code = 0
    /\ rd.proc["api"] = "exited" /\ "api" \notin rd.signalled
    /\ rd.proc["web"] = "killed" /\ rd.kill_at["web"] = 5

\* C38: on every path by which the supervisor ends after it started an API
\* process, a failure to start the frontend included, that API process and
\* every other process it started is no longer running.
C38_NoProcessLeftRunning ==
    rd.pc \in {"returned", "raised"} => \A p \in {"web", "api"} : ~Running(rd.proc[p])

\* C39: the discount extracted is absent or an integer in 0..100: it is the
\* value found by the first of the five patterns, in the order of the list,
\* whose match has a value in 0..100, absent when there is no such pattern;
\* a matched value above 100 is never returned.
C39_DiscountIsFirstValidPattern ==
    dp.pc = "done" =>
        LET found == [k \in 1..5 |-> Search(k, dp.block)]
            valid == { k \in 1..5 : ~found[k].none /\ found[k].v \in 0..100 }
        IN  /\ dp.result.none \/ dp.result.v \in 0..100
            /\ valid = {} => dp.result.none
            /\ valid # {} => dp.result = found[CHOOSE k \in valid : \A o \in valid : k <= o]

\* C39 witness: the first pattern matched a value above 100 and was passed
\* over; the value returned is the one of a later pattern
C39_Witness ==
    /\ dp.pc = "done"
    /\ ~Search(1, dp.block).none /\ Search(1, dp.block).v > 100
    /\ ~dp.result.none /\ dp.result.v <= 100

====
